---------------------------- MODULE Spec2Model ----------------------------
(***************************************************************************)
(* Background job orchestrator of backend/main.py: the shared maps         *)
(* processing_status and cancellation_flags, the lock status_lock, the     *)
(* registration handler process_manual, the worker                         *)
(* process_manual_background, the poll handler get_processing_status with  *)
(* its TTL sweep cleanup_expired_statuses, the cancel handler              *)
(* cancel_processing and reset_workspace.                                  *)
(*                                                                         *)
(* Threads are interleaved at the granularity of one access to a shared    *)
(* map (CPython executes one dictionary operation atomically).  Labels     *)
(* "Lnnn" are line numbers of backend/main.py, "Onnn" line numbers of      *)
(* backend/ocr_extraction.py.                                              *)
(*                                                                         *)
(* The functions the worker calls are modelled on their own: the range     *)
(* extraction extract_pdf_with_ocr and the page extraction                 *)
(* extract_page_with_ocr of backend/ocr_extraction.py, the grounding       *)
(* parser parse_grounding_output, and the section detector of              *)
(* backend/language_detection.py.                                          *)
(***************************************************************************)
EXTENDS Integers, Sequences, FiniteSets, TLC

VARIABLES
    processing_status,   \* main.py:26   token -> job record (partial map)
    ps_keys,             \* insertion order of processing_status (dict order)
    cancellation_flags,  \* main.py:29   token -> BOOLEAN (partial map)
    status_lock,         \* main.py:32   NoOwner or the thread holding it
    now,                 \* time.time()
    reg,                 \* position of process_manual for each token
    worker,              \* position and locals of process_manual_background
    req,                 \* request threads: polls and cancels in flight
    meta,                \* durable metadata written by update_meta
    budget,              \* how many cancels, resets and clock ticks happened
    scope,               \* the uploads and request threads of the run; constant
    hist,                \* observations for the properties, never read by an action
    extraction,          \* one call of extract_pdf_with_ocr
    page_run,            \* one call of extract_page_with_ocr and the image directory
    detection,           \* one call of detect_and_select_language_section
    grounding            \* one call of parse_grounding_output

\* The state of the orchestrator
jobvars == <<processing_status, ps_keys, cancellation_flags, status_lock, now,
             reg, worker, req, meta, budget, scope, hist>>

\* The state of the function calls that are modelled on their own
libvars == <<extraction, page_run, detection, grounding>>

vars == <<processing_status, ps_keys, cancellation_flags, status_lock, now,
          reg, worker, req, meta, budget, scope, hist,
          extraction, page_run, detection, grounding>>

(***************************************************************************)
(* Bounds of the model.                                                    *)
(***************************************************************************)
Tokens == {"t1", "t2"}
Reqs == {"r1", "r2"}
MaxPages == 1
MaxCancels == 1
MaxResets == 1
MaxTicks == 2
TickSeconds == 3600

STATUS_TTL_SECONDS == 3600

NoOwner == "free"

(***************************************************************************)
(* Helpers on partial maps.                                                *)
(***************************************************************************)
MapDel(m, key) == [x \in DOMAIN m \ {key} |-> m[x]]

\* MapPut that writes the value to every entry of the map
MapPutAll(m, key, v) == [x \in DOMAIN m \cup {key} |-> v]

MapPut(m, key, v) == [x \in DOMAIN m \cup {key} |-> IF x = key THEN v ELSE m[x]]

SeqDel(s, key) == SelectSeq(s, LAMBDA x : x # key)


(***************************************************************************)
(* Job records.  A record is the dict built at main.py:416-421; the keys   *)
(* detected_language, translated and output_filename are added on          *)
(* completion (main.py:364-366).                                           *)
(***************************************************************************)
NewJob(t) ==
    [status |-> "processing",
     logs |-> <<"[INFO] Upload received, starting processing...">>,
     stage |-> "starting",
     created_at |-> t]

\* d[key] = v, and for key "logs" d["logs"].append(v)
SetField(d, key, v) ==
    IF key = "logs"
    THEN [d EXCEPT !.logs = Append(@, v)]
    ELSE [x \in DOMAIN d \cup {key} |-> IF x = key THEN v ELSE d[x]]

NotFoundRecord ==
    [status |-> "error",
     logs |-> <<"[ERROR] Processing status not found. Token may have expired.">>,
     stage |-> "error"]

(***************************************************************************)
(* Threads.                                                                *)
(***************************************************************************)
RegThread(t) == "process_manual:" \o t

NoWorker ==
    [pc |-> "idle", k |-> 0, lang |-> "unknown", n |-> 0, i |-> 0, nres |-> 0,
     exc |-> "", raised |-> FALSE, via |-> ""]

NoRequest ==
    [op |-> "idle", pc |-> "idle", token |-> "", current_time |-> 0,
     expired |-> <<>>, broken |-> FALSE, resp |-> [kind |-> "none", body |-> <<>>], swept |-> {}]

\* No call of the function is under way
NoExtract == [pc |-> "idle"]
NoPage == [pc |-> "idle"]
NoScan == [pc |-> "idle"]
NoParse == [pc |-> "idle"]

NoHist ==
    [accepted |-> FALSE,   \* a cancel wrote the flag while the job was processing
     cancelSet |-> "no",   \* when main.py:476 first wrote True, see FirstSet
     zero |-> FALSE,       \* extract_pdf_with_ocr returned no page
     scan |-> "",          \* what detect_and_select_language_section returned
     stages |-> {},        \* the stages the worker wrote to the job record
     evicted |-> "no",     \* what removed the job record: "ttl" or "reset"
     created |-> -1]       \* the created_at of the job record

\* Handing the answer of a finished handler to the client is a step local to
\* its thread: it is taken before any other thread moves.
NoPending == \A r \in Reqs : req[r].pc # "ret"

(***************************************************************************)
(* process_manual_background, main.py:223-387.                             *)
(***************************************************************************)
\* check_cancelled, main.py:232-234: cancellation_flags.get(token, False)
check_cancelled(t) ==
    IF t \in DOMAIN cancellation_flags THEN cancellation_flags[t] ELSE FALSE

\* str.lower() on the language names and codes and the annotation types the
\* model draws from
Lower(s) ==
    CASE s = "English" -> "english"
      [] s = "German" -> "german"
      [] s = "Figure" -> "figure"
      [] s = "Unknown" -> "unknown"
      [] OTHER -> s

\* main.py:326 comparing with the language code only
IsEnglishCodeOnly(lang) == Lower(lang) = "en"

\* main.py:326
is_english(lang) == Lower(lang) \in {"en", "english"}

CancelledLog == "[INFO] Processing cancelled by user"

\* The statements run under "with status_lock: if token in processing_status:"
\* at label l, as <<key, value>> assignments on processing_status[token].
Writes(l, w) ==
    CASE l = "L244" -> << <<"logs", "[INFO] Scanning PDF for language sections...">> >>
      [] l = "L245" -> << <<"stage", "language_scan">> >>
      [] l \in {"L252", "L288", "L317", "L351"} -> << <<"logs", CancelledLog>> >>
      [] l \in {"L253", "L289", "L318", "L352"} ->
            << <<"status", "cancelled">>, <<"stage", "cancelled">> >>
      [] l = "L267" -> << <<"logs", "[OK] Found " \o w.lang \o " section">> >>
      [] l = "L268" -> << <<"logs", "[INFO] Will extract the section instead of entire PDF">> >>
      [] l = "L270" ->
            << <<"logs", "[INFO] No clear language sections detected, will extract all pages">> >>
      [] l = "L273" -> << <<"logs", "[INFO] Starting OCR extraction...">> >>
      [] l = "L274" -> << <<"stage", "ocr_extraction">> >>
      [] l = "L240" ->
            << <<"logs", "[OK] Page " \o ToString(w.i + 1) \o "/" \o ToString(w.n)
                          \o " processed">> >>
      [] l = "L298" -> << <<"logs", "[OK] Extracted " \o ToString(w.nres) \o " pages">> >>
      [] l = "L299" -> << <<"stage", "ocr_complete">> >>
      [] l = "L305" -> << <<"logs", "[INFO] Detecting language from extracted content...">> >>
      [] l = "L306" -> << <<"stage", "language_detection">> >>
      [] l = "L311" -> << <<"logs", "[OK] Detected language: " \o w.lang>> >>
      [] l = "L314" -> << <<"logs", "[INFO] Using pre-scanned language: " \o w.lang>> >>
      [] l = "L330" -> << <<"logs", "[INFO] Translating from " \o w.lang \o " to English...">> >>
      [] l = "L331" -> << <<"stage", "translating">> >>
      [] l = "L335" ->
            << <<"logs", "[INFO] Text already in English, generating reference markdown...">> >>
      [] l = "L336" -> << <<"stage", "generating_reference">> >>
      [] l = "L358" -> << <<"logs", "[OK] Reference markdown generated">> >>
      [] l = "L360" ->
            << <<"stage", "complete">>, <<"status", "complete">>,
               <<"detected_language", w.lang>>, <<"translated", ~is_english(w.lang)>>,
               <<"output_filename", "reference.md">> >>
      [] l = "L379" ->
            << <<"status", "error">>, <<"stage", "error">>,
               <<"logs", "[ERROR] " \o w.exc>> >>

LockedLabels ==
    {"L244", "L245", "L252", "L253", "L267", "L268", "L270", "L273", "L274", "L240",
     "L288", "L289", "L298", "L299", "L305", "L306", "L311", "L314", "L317", "L318",
     "L330", "L331", "L335", "L336", "L351", "L352", "L358", "L360", "L379"}

\* The four checkpoints of the worker itself (main.py:251, 287, 316, 350)
CheckLabels == {"L251", "L287", "L316", "L350"}

Goto(w, l) == [w EXCEPT !.pc = l]

\* "return" inside the try block, or its end: control enters the finally clause
\* The cancelled branch at main.py:252-257 without its return: the worker goes
\* on with the extraction
FinallyFallsThrough(w, how) ==
    IF how = "return257" THEN [w EXCEPT !.pc = "L267"]
    ELSE [w EXCEPT !.pc = "L386", !.via = how]

Finally(w, how) == [w EXCEPT !.pc = "L386", !.via = how]

\* An exception that no handler records: control goes to the finally clause
RaiseUncaught(w, msg) == [w EXCEPT !.pc = "L386", !.via = "except", !.raised = TRUE]

\* An exception raised at label l: caught by "except Exception" (main.py:378),
\* unless raised inside that handler itself.
Raise(w, msg) ==
    IF w.pc = "L379"
    THEN [w EXCEPT !.pc = "L386", !.via = "except", !.raised = TRUE]
    ELSE [w EXCEPT !.pc = "L379", !.exc = msg]

\* The end of one iteration of the page loop, ocr_extraction.py:324
NextPage(w) ==
    IF w.i + 1 >= w.n
    THEN [w EXCEPT !.pc = "L287", !.i = 0, !.n = 0]
    ELSE [w EXCEPT !.pc = "O326", !.i = @ + 1]

\* main.py:303 without the test of the pre-scanned language
NeedsDetectionAlways(w) == w.nres > 0

\* main.py:303 'if detected_language == "unknown" and results:'
NeedsDetection(w) == w.lang = "unknown" /\ w.nres > 0

\* Where control goes when the locked block at w.pc is finished or skipped
After(w) ==
    LET l == w.pc IN
    CASE l = "L244" -> Goto(w, "L245")
      [] l = "L245" -> Goto(w, "L249")
      [] l = "L252" -> Goto(w, "L253")
      [] l = "L253" -> Finally(w, "return257")
      [] l = "L267" -> Goto(w, "L268")
      [] l = "L268" -> Goto(w, "L273")
      [] l = "L270" -> Goto(w, "L273")
      [] l = "L273" -> Goto(w, "L274")
      [] l = "L274" -> Goto(w, "L278")
      [] l = "L240" -> NextPage(w)
      [] l = "L288" -> Goto(w, "L289")
      [] l = "L289" -> Finally(w, "return293")
      [] l = "L298" -> Goto(w, "L299")
      [] l = "L299" -> IF NeedsDetection(w) THEN Goto(w, "L305") ELSE Goto(w, "L314")
      [] l = "L305" -> Goto(w, "L306")
      [] l = "L306" -> Goto(w, "L310")
      [] l = "L311" -> Goto(w, "L316")
      [] l = "L314" -> Goto(w, "L316")
      [] l = "L317" -> Goto(w, "L318")
      [] l = "L318" -> Finally(w, "return322")
      [] l = "L330" -> Goto(w, "L331")
      [] l = "L331" -> Goto(w, "L340")
      [] l = "L335" -> Goto(w, "L336")
      [] l = "L336" -> Goto(w, "L340")
      [] l = "L351" -> Goto(w, "L352")
      [] l = "L352" -> Finally(w, "return356")
      [] l = "L358" -> Goto(w, "L360")
      [] l = "L360" -> Goto(w, "L370")
      [] l = "L379" -> Finally(w, "except")

\* A KeyError on processing_status[token] inside the locked block at w.pc.
\* Inside progress_cb it is swallowed by ocr_extraction.py:345-346.
KeyErrorAt(w) ==
    IF w.pc = "L240" THEN After(w) ELSE Raise(w, "KeyError")

\* CancelBranch with the checkpoint at main.py:316 going on to the translation
CancelBranchPasses316(l) ==
    CASE l = "L251" -> "L252"
      [] l = "L287" -> "L288"
      [] l = "L316" -> "L330"
      [] l = "L350" -> "L351"

\* CancelBranch with the last checkpoint, main.py:350, going on to completion
CancelBranchPasses350(l) ==
    CASE l = "L251" -> "L252"
      [] l = "L287" -> "L288"
      [] l = "L316" -> "L317"
      [] l = "L350" -> "L358"

\* The branch taken at a checkpoint whose check_cancelled() returned True
CancelBranch(l) ==
    CASE l = "L251" -> "L252"
      [] l = "L287" -> "L288"
      [] l = "L316" -> "L317"
      [] l = "L350" -> "L351"

\* Continue with the line main.py:298 of the worker replaced by main.py:330:
\* the extraction is followed by the translation at once
ContinueSkipsOcrComplete(w) ==
    LET l == w.pc IN
    CASE l = "L251" -> IF w.lang # "unknown" THEN Goto(w, "L267") ELSE Goto(w, "L270")
      [] l = "L287" -> IF w.nres = 0
                       THEN Raise(w, "OCR extraction returned no pages")
                       ELSE Goto(w, "L330")
      [] l = "L316" -> IF is_english(w.lang) THEN Goto(w, "L335") ELSE Goto(w, "L330")
      [] l = "L350" -> Goto(w, "L358")

\* Continue without the test of main.py:295-296 for an empty extraction
ContinueAcceptsNoPages(w) ==
    LET l == w.pc IN
    CASE l = "L251" -> IF w.lang # "unknown" THEN Goto(w, "L267") ELSE Goto(w, "L270")
      [] l = "L287" -> Goto(w, "L298")
      [] l = "L316" -> IF is_english(w.lang) THEN Goto(w, "L335") ELSE Goto(w, "L330")
      [] l = "L350" -> Goto(w, "L358")

\* The continuation of a checkpoint whose check_cancelled() returned False
Continue(w) ==
    LET l == w.pc IN
    CASE l = "L251" -> IF w.lang # "unknown" THEN Goto(w, "L267") ELSE Goto(w, "L270")
      [] l = "L287" -> IF w.nres = 0
                       THEN Raise(w, "OCR extraction returned no pages")
                       ELSE Goto(w, "L298")
      [] l = "L316" -> IF is_english(w.lang) THEN Goto(w, "L335") ELSE Goto(w, "L330")
      [] l = "L350" -> Goto(w, "L358")

\* What a worker step records about the run (read by no action)
WorkerHist(t, w2) ==
    [hist EXCEPT ![t].zero =
        IF w2.pc = "L287" /\ worker[t].pc # "L287" THEN w2.nres = 0 ELSE @,
                 ![t].scan = IF worker[t].pc = "L249" THEN w2.lang ELSE @]

WorkerFrame == NoPending /\ UNCHANGED <<ps_keys, now, reg, req, budget, scope, libvars>>

\* The block at main.py:245 keeps the lock over the language scan
ReleaseNotBeforeScan(w) == IF w.pc = "L245" THEN status_lock ELSE NoOwner

\* A "return" inside a locked block (main.py:257, 293, 322, 356) leaves the
\* function with the lock still held
ReleaseNotOnReturn(w) ==
    IF w.pc \in {"L253", "L289", "L318", "L352"} THEN status_lock ELSE NoOwner

\* Leaving a "with status_lock:" block of the worker at w.pc releases the lock
Release(w) == NoOwner

\* Entering "with status_lock: if token in processing_status:" (e.g. main.py:228-229)
WLockEnter(t) ==
    /\ worker[t].pc \in LockedLabels
    /\ worker[t].k = 0
    /\ status_lock = NoOwner
    /\ IF t \in DOMAIN processing_status
       THEN /\ worker' = [worker EXCEPT ![t].k = 1]
            /\ status_lock' = t
       ELSE /\ worker' = [worker EXCEPT ![t] = After(@)]
            /\ UNCHANGED status_lock
    /\ hist' = WorkerHist(t, worker'[t])
    /\ UNCHANGED <<processing_status, cancellation_flags, meta>>
    /\ WorkerFrame

\* One assignment to processing_status[token] inside the locked block
\* (e.g. main.py:230, 255-256, 362-366, 381-383); leaving the block releases the lock.
WLockedWrite(t) ==
    /\ worker[t].k >= 1
    /\ status_lock = t
    /\ LET w == worker[t]
           ws == Writes(w.pc, w)
           kv == ws[w.k]
       IN  IF t \notin DOMAIN processing_status
           THEN /\ worker' = [worker EXCEPT ![t] = KeyErrorAt([w EXCEPT !.k = 0])]
                /\ status_lock' = NoOwner
                /\ UNCHANGED processing_status
           ELSE /\ processing_status' =
                       [processing_status EXCEPT ![t] = SetField(@, kv[1], kv[2])]
                /\ IF w.k = Len(ws)
                   THEN /\ worker' = [worker EXCEPT ![t] = After([w EXCEPT !.k = 0])]
                        /\ status_lock' = Release(w)
                   ELSE /\ worker' = [worker EXCEPT ![t].k = w.k + 1]
                        /\ UNCHANGED status_lock
    /\ hist' = [WorkerHist(t, worker'[t]) EXCEPT ![t].stages =
                    IF t \in DOMAIN processing_status
                       /\ Writes(worker[t].pc, worker[t])[worker[t].k][1] = "stage"
                    THEN @ \cup {Writes(worker[t].pc, worker[t])[worker[t].k][2]}
                    ELSE @]
    /\ UNCHANGED <<cancellation_flags, meta>>
    /\ WorkerFrame

\* A step of the worker that touches only its own locals
WLocal(t, w2) ==
    /\ worker' = [worker EXCEPT ![t] = w2]
    /\ hist' = WorkerHist(t, w2)
    /\ UNCHANGED <<processing_status, cancellation_flags, status_lock, meta>>
    /\ WorkerFrame

\* The checkpoints with the test for an empty extraction, main.py:295, ahead
\* of the check of main.py:287
WCheckEmptyFirst(t) ==
    /\ worker[t].pc \in CheckLabels
    /\ WLocal(t, IF worker[t].pc = "L287" /\ worker[t].nres = 0
                 THEN Continue(worker[t])
                 ELSE IF check_cancelled(t)
                      THEN Goto(worker[t], CancelBranch(worker[t].pc))
                      ELSE Continue(worker[t]))

\* "if check_cancelled():" at main.py:251, 287, 316, 350
WCheck(t) ==
    /\ worker[t].pc \in CheckLabels
    /\ WLocal(t, IF check_cancelled(t)
                 THEN Goto(worker[t], CancelBranch(worker[t].pc))
                 ELSE Continue(worker[t]))

\* main.py:249 detect_and_select_language_section: None, or the selected
\* section's language code (language_detection.py:217-269 catches its failures)
Call249(t) ==
    /\ worker[t].pc = "L249"
    /\ \E r \in scope.sections :
          WLocal(t, [worker[t] EXCEPT !.pc = "L251", !.lang = r])

\* main.py:278 entering extract_pdf_with_ocr, ocr_extraction.py:303-322:
\* n pages to extract; none when the document cannot be opened or the start
\* page is beyond its end
Call278(t) ==
    /\ worker[t].pc = "L278"
    /\ \E n \in scope.pages :
          WLocal(t, [worker[t] EXCEPT !.pc = IF n = 0 THEN "L287" ELSE "O326",
                                      !.n = n, !.i = 0, !.nres = 0])

\* The page loop without the cancellation check of ocr_extraction.py:326
O326NoCheck(t) ==
    /\ worker[t].pc = "O326"
    /\ WLocal(t, Goto(worker[t], "O332"))

\* ocr_extraction.py:326 the cancellation check before each page
O326(t) ==
    /\ worker[t].pc = "O326"
    /\ WLocal(t, IF check_cancelled(t)
                 THEN [worker[t] EXCEPT !.pc = "L287", !.i = 0, !.n = 0]
                 ELSE Goto(worker[t], "O332"))

\* ocr_extraction.py:334-340 extract_page_with_ocr: a result, None, or an
\* exception of the model call, which leaves extract_pdf_with_ocr
O332(t) ==
    /\ worker[t].pc = "O332"
    /\ \/ WLocal(t, [worker[t] EXCEPT !.pc = "L237", !.nres = @ + 1])
       \/ WLocal(t, NextPage(worker[t]))
       \/ WLocal(t, Raise([worker[t] EXCEPT !.i = 0, !.n = 0], "OCR model call failed"))

\* progress_cb, main.py:236-238
L237(t) ==
    /\ worker[t].pc = "L237"
    /\ WLocal(t, IF check_cancelled(t) THEN NextPage(worker[t])
                                       ELSE Goto(worker[t], "L240"))

\* main.py:310 detect_language (translation.py:235-274 returns "Unknown" on failure)
Call310(t) ==
    /\ worker[t].pc = "L310"
    /\ \E r \in scope.detected :
          WLocal(t, [worker[t] EXCEPT !.pc = "L311", !.lang = r])

\* main.py:340 generate_reference_md
Call340(t) ==
    /\ worker[t].pc = "L340"
    /\ \/ WLocal(t, Goto(worker[t], "L350"))
       \/ WLocal(t, Raise(worker[t], "reference generation failed"))

\* update_meta without the try/except of main.py:369-376: its exception
\* reaches the handler at main.py:378
Call370Propagates(t) ==
    /\ worker[t].pc = "L370"
    /\ \/ /\ meta' = [meta EXCEPT ![t] = [translated_filename |-> "reference.md",
                                          detected_language |-> worker[t].lang]]
          /\ worker' = [worker EXCEPT ![t] = Finally(@, "end")]
       \/ /\ UNCHANGED meta
          /\ worker' = [worker EXCEPT ![t] = Raise(@, "metadata write failed")]
    /\ hist' = WorkerHist(t, worker'[t])
    /\ UNCHANGED <<processing_status, cancellation_flags, status_lock>>
    /\ WorkerFrame

\* main.py:369-376 update_meta, its exception swallowed
Call370(t) ==
    /\ worker[t].pc = "L370"
    /\ \/ meta' = [meta EXCEPT ![t] = [translated_filename |-> "reference.md",
                                       detected_language |-> worker[t].lang]]
       \/ UNCHANGED meta
    /\ worker' = [worker EXCEPT ![t] = Finally(@, "end")]
    /\ hist' = WorkerHist(t, worker'[t])
    /\ UNCHANGED <<processing_status, cancellation_flags, status_lock>>
    /\ WorkerFrame

\* The function has returned; its locals are gone
Done(w) == [NoWorker EXCEPT !.pc = "done", !.raised = w.raised, !.via = w.via]

\* main.py:386 "if token in cancellation_flags:"
L386(t) ==
    /\ worker[t].pc = "L386"
    /\ WLocal(t, IF t \in DOMAIN cancellation_flags
                 THEN Goto(worker[t], "L387") ELSE Done(worker[t]))

\* main.py:387 "del cancellation_flags[token]"
L387(t) ==
    /\ worker[t].pc = "L387"
    /\ IF t \in DOMAIN cancellation_flags
       THEN /\ cancellation_flags' = MapDel(cancellation_flags, t)
            /\ worker' = [worker EXCEPT ![t] = Done(@)]
       ELSE /\ UNCHANGED cancellation_flags
            /\ worker' = [worker EXCEPT ![t] = Done([@ EXCEPT !.raised = TRUE])]
    /\ hist' = WorkerHist(t, worker'[t])
    /\ UNCHANGED <<processing_status, status_lock, meta>>
    /\ WorkerFrame

process_manual_background(t) ==
    \/ WLockEnter(t)
    \/ WLockedWrite(t)
    \/ WCheck(t)
    \/ Call249(t)
    \/ Call278(t)
    \/ O326(t)
    \/ O332(t)
    \/ L237(t)
    \/ Call310(t)
    \/ Call340(t)
    \/ Call370(t)
    \/ L386(t)
    \/ L387(t)

(***************************************************************************)
(* process_manual, main.py:390-441.  The handler is a coroutine: the event *)
(* loop runs one registration at a time.                                   *)
(***************************************************************************)
\* process_manual_steps with the worker dispatched before the record exists
DispatchFirst == <<"L425", "L416", "L422">>

\* The statements of the handler, in the order it executes them:
\* L416 creates the job record, L422 the cancellation flag (both inside
\* "with status_lock"), L425 hands the worker to the background tasks.
process_manual_steps == <<"L416", "L422", "L425">>

Returned(t) == reg[t] = Len(process_manual_steps)

\* A client can name token t in a request: process_manual has returned it
\* (main.py:431-441), or t is a token of no upload that clients ask about
Known(t) == IF t \in scope.uploads THEN Returned(t) ELSE t \in scope.unknown

process_manual(t) ==
    /\ NoPending
    /\ t \in scope.uploads
    /\ reg[t] < Len(process_manual_steps)
    /\ \A u \in Tokens \ {t} : reg[u] = 0 \/ Returned(u)
    /\ LET st == process_manual_steps[reg[t] + 1] IN
       \/ /\ st = "L416"
          /\ status_lock = NoOwner
          /\ status_lock' = RegThread(t)
          /\ processing_status' = MapPut(processing_status, t, NewJob(now))
          /\ ps_keys' = Append(SeqDel(ps_keys, t), t)
          /\ hist' = [hist EXCEPT ![t].created = now]
          /\ UNCHANGED <<cancellation_flags, worker>>
       \/ /\ st = "L422"
          /\ status_lock = RegThread(t)
          /\ status_lock' = NoOwner
          /\ cancellation_flags' = MapPut(cancellation_flags, t, FALSE)
          /\ UNCHANGED <<processing_status, ps_keys, worker, hist>>
       \/ /\ st = "L425"
          /\ worker[t].pc = "idle"
          /\ worker' = [worker EXCEPT ![t].pc = "L244"]
          /\ UNCHANGED <<processing_status, ps_keys, cancellation_flags, status_lock, hist>>
    /\ reg' = [reg EXCEPT ![t] = @ + 1]
    /\ UNCHANGED <<now, req, meta, budget, scope, libvars>>

(***************************************************************************)
(* get_processing_status, main.py:444-463, with cleanup_expired_statuses,  *)
(* main.py:38-51.                                                          *)
(***************************************************************************)
Response(kind, body) == [kind |-> kind, body |-> body]

\* main.py:44 with jobs in progress exempt from the sweep
ExpiredUnlessProcessing(status, current_time) ==
    /\ status.status # "processing"
    /\ current_time - status.created_at > STATUS_TTL_SECONDS

\* main.py:44
Expired(status, current_time) == current_time - status.created_at > STATUS_TTL_SECONDS

ReqFrame == NoPending /\ UNCHANGED <<now, reg, worker, meta, budget, scope, libvars>>

\* The request arrives; main.py:40 reads the clock
PollStart(r, t) ==
    /\ req[r].op = "idle"
    /\ r \in scope.pollers
    /\ Known(t)
    /\ req' = [req EXCEPT ![r] = [NoRequest EXCEPT !.op = "poll", !.pc = "L41",
                                     !.token = t, !.current_time = now]]
    /\ UNCHANGED <<processing_status, ps_keys, cancellation_flags, status_lock, hist>>
    /\ ReqFrame

\* main.py:41-43 the lock is taken and the scan of processing_status.items() begins
L41(r) ==
    /\ req[r].pc = "L41"
    /\ status_lock = NoOwner
    /\ status_lock' = r
    /\ req' = [req EXCEPT ![r].pc = "L42", ![r].broken = FALSE]
    /\ UNCHANGED <<processing_status, ps_keys, cancellation_flags, hist>>
    /\ ReqFrame

\* The next statement of the sweep after one expired token is done
SweepNext(q) ==
    IF Len(q.expired) > 1
    THEN [q EXCEPT !.pc = "L47", !.expired = Tail(@)]
    ELSE [q EXCEPT !.pc = "L50", !.expired = <<>>]

\* An exception leaves the handler: the lock is released by "with", the
\* request fails
Fails(q, what) ==
    [q EXCEPT !.pc = "ret", !.expired = <<>>, !.resp = Response("failed", <<what>>)]

\* main.py:42-45 the scan ends: a dict that changed size during the iteration
\* raises RuntimeError
L42(r) ==
    /\ req[r].pc = "L42"
    /\ LET q == req[r]
           ex == SelectSeq(ps_keys,
                           LAMBDA t : Expired(processing_status[t], q.current_time))
       IN  IF q.broken
           THEN /\ req' = [req EXCEPT ![r] = Fails(q, "RuntimeError")]
                /\ status_lock' = NoOwner
           ELSE IF ex = <<>>
                THEN /\ req' = [req EXCEPT ![r].pc = "L454"]
                     /\ status_lock' = NoOwner
                ELSE /\ req' = [req EXCEPT ![r].pc = "L47", ![r].expired = ex]
                     /\ UNCHANGED status_lock
    /\ UNCHANGED <<processing_status, ps_keys, cancellation_flags, hist>>
    /\ ReqFrame

\* main.py:47 "del processing_status[token]"
L47(r) ==
    /\ req[r].pc = "L47"
    /\ LET q == req[r]
           t == Head(q.expired)
       IN  IF t \in DOMAIN processing_status
           THEN /\ processing_status' = MapDel(processing_status, t)
                /\ ps_keys' = SeqDel(ps_keys, t)
                /\ req' = [req EXCEPT ![r].pc = "L48", ![r].swept = @ \cup {t}]
                /\ hist' = [hist EXCEPT ![t].evicted = "ttl"]
                /\ UNCHANGED status_lock
           ELSE /\ req' = [req EXCEPT ![r] = Fails(q, "KeyError")]
                /\ status_lock' = NoOwner
                /\ UNCHANGED <<processing_status, ps_keys, hist>>
    /\ UNCHANGED cancellation_flags
    /\ ReqFrame

\* main.py:48 "if token in cancellation_flags:"
L48(r) ==
    /\ req[r].pc = "L48"
    /\ req' = [req EXCEPT ![r] = IF Head(@.expired) \in DOMAIN cancellation_flags
                                 THEN [@ EXCEPT !.pc = "L49"] ELSE SweepNext(@)]
    /\ UNCHANGED <<processing_status, ps_keys, cancellation_flags, status_lock, hist>>
    /\ ReqFrame

\* main.py:49 "del cancellation_flags[token]"
L49(r) ==
    /\ req[r].pc = "L49"
    /\ LET q == req[r]
           t == Head(q.expired)
       IN  IF t \in DOMAIN cancellation_flags
           THEN /\ cancellation_flags' = MapDel(cancellation_flags, t)
                /\ req' = [req EXCEPT ![r] = SweepNext(q)]
                /\ UNCHANGED status_lock
           ELSE /\ req' = [req EXCEPT ![r] = Fails(q, "KeyError")]
                /\ status_lock' = NoOwner
                /\ UNCHANGED cancellation_flags
    /\ UNCHANGED <<processing_status, ps_keys, hist>>
    /\ ReqFrame

\* main.py:50-51 the count is logged and the lock released
L50(r) ==
    /\ req[r].pc = "L50"
    /\ status_lock' = NoOwner
    /\ req' = [req EXCEPT ![r].pc = "L454"]
    /\ UNCHANGED <<processing_status, ps_keys, cancellation_flags, hist>>
    /\ ReqFrame

cleanup_expired_statuses(r) ==
    \/ L41(r)
    \/ L42(r)
    \/ L47(r)
    \/ L48(r)
    \/ L49(r)
    \/ L50(r)

\* main.py:454-460 "if token not in processing_status:"
L454(r) ==
    /\ req[r].pc = "L454"
    /\ req' = [req EXCEPT ![r] =
                  IF @.token \notin DOMAIN processing_status
                  THEN [@ EXCEPT !.pc = "ret", !.resp = Response("not_found", NotFoundRecord)]
                  ELSE [@ EXCEPT !.pc = "L462"]]
    /\ UNCHANGED <<processing_status, ps_keys, cancellation_flags, status_lock, hist>>
    /\ ReqFrame

\* main.py:463 without the lock of main.py:462
L462NoLock(r) ==
    /\ req[r].pc = "L462"
    /\ LET q == req[r] IN
       req' = [req EXCEPT ![r] =
                  IF q.token \in DOMAIN processing_status
                  THEN [q EXCEPT !.pc = "ret",
                                 !.resp = Response("snapshot", processing_status[q.token])]
                  ELSE Fails(q, "KeyError")]
    /\ UNCHANGED <<processing_status, ps_keys, cancellation_flags, status_lock, hist>>
    /\ ReqFrame

\* main.py:462-463 "with status_lock: return dict(processing_status[token])"
L462(r) ==
    /\ req[r].pc = "L462"
    /\ status_lock = NoOwner
    /\ LET q == req[r] IN
       req' = [req EXCEPT ![r] =
                  IF q.token \in DOMAIN processing_status
                  THEN [q EXCEPT !.pc = "ret",
                                 !.resp = Response("snapshot", processing_status[q.token])]
                  ELSE Fails(q, "KeyError")]
    /\ UNCHANGED <<processing_status, ps_keys, cancellation_flags, status_lock, hist>>
    /\ ReqFrame

get_processing_status(r) ==
    \/ \E t \in Tokens : PollStart(r, t)
    \/ cleanup_expired_statuses(r)
    \/ L454(r)
    \/ L462(r)

(***************************************************************************)
(* cancel_processing, main.py:466-482.                                     *)
(***************************************************************************)
\* Positions of the worker from which it still executes a checkpoint on its
\* way to "complete"
BeforeLastCheck ==
    {"idle", "L244", "L245", "L249", "L251", "L267", "L268", "L270", "L273", "L274",
     "L278", "O326", "O332", "L237", "L240", "L287", "L298", "L299", "L305", "L306",
     "L310", "L311", "L314", "L316", "L330", "L331", "L335", "L336", "L340", "L350"}

\* What the first write of True to the flag of t is recorded as
FirstSet(t) == IF worker[t].pc \in BeforeLastCheck THEN "in_time" ELSE "late"

Processing(t) ==
    t \in DOMAIN processing_status /\ processing_status[t].status = "processing"

\* The request arrives; main.py:473-474 "if token not in cancellation_flags:"
L473(r, t) ==
    /\ req[r].op = "idle"
    /\ r \in scope.cancellers
    /\ Known(t)
    /\ NoPending
    /\ budget.cancels < MaxCancels
    /\ budget' = [budget EXCEPT !.cancels = @ + 1]
    /\ req' = [req EXCEPT ![r] =
                  IF t \notin DOMAIN cancellation_flags
                  THEN [NoRequest EXCEPT !.op = "cancel", !.token = t, !.pc = "ret",
                                         !.resp = Response("404", <<>>)]
                  ELSE [NoRequest EXCEPT !.op = "cancel", !.token = t, !.pc = "L476"]]
    /\ UNCHANGED <<processing_status, ps_keys, cancellation_flags, status_lock, hist>>
    /\ UNCHANGED <<now, reg, worker, meta, scope, libvars>>

\* L476 writing False instead of True
L476WritesFalse(r) ==
    /\ req[r].pc = "L476"
    /\ LET t == req[r].token IN
       /\ cancellation_flags' = MapPut(cancellation_flags, t, FALSE)
       /\ hist' = [hist EXCEPT ![t].cancelSet = IF @ = "no" THEN FirstSet(t) ELSE @,
                                ![t].accepted = @ \/ Processing(t)]
    /\ req' = [req EXCEPT ![r].pc = "L478"]
    /\ UNCHANGED <<processing_status, ps_keys, status_lock>>
    /\ ReqFrame

\* main.py:476 "cancellation_flags[token] = True"
L476(r) ==
    /\ req[r].pc = "L476"
    /\ LET t == req[r].token IN
       /\ cancellation_flags' = MapPut(cancellation_flags, t, TRUE)
       /\ hist' = [hist EXCEPT ![t].cancelSet = IF @ = "no" THEN FirstSet(t) ELSE @,
                                ![t].accepted = @ \/ Processing(t)]
    /\ req' = [req EXCEPT ![r].pc = "L478"]
    /\ UNCHANGED <<processing_status, ps_keys, status_lock>>
    /\ ReqFrame

\* main.py:478-479 "with status_lock: if token in processing_status:"
L478(r) ==
    /\ req[r].pc = "L478"
    /\ status_lock = NoOwner
    /\ IF req[r].token \in DOMAIN processing_status
       THEN /\ status_lock' = r
            /\ req' = [req EXCEPT ![r].pc = "L480"]
       ELSE /\ UNCHANGED status_lock
            /\ req' = [req EXCEPT ![r].pc = "ret", ![r].resp = Response("cancelling", <<>>)]
    /\ UNCHANGED <<processing_status, ps_keys, cancellation_flags, hist>>
    /\ ReqFrame

CancelLog == "[INFO] Cancellation requested..."

\* L480 with the flag written back to False once the request is logged
L480ClearsFlag(r) ==
    /\ req[r].pc = "L480"
    /\ LET t == req[r].token IN
       /\ IF t \in DOMAIN processing_status
          THEN /\ processing_status' =
                      [processing_status EXCEPT ![t] = SetField(@, "logs", CancelLog)]
               /\ req' = [req EXCEPT ![r].pc = "ret", ![r].resp = Response("cancelling", <<>>)]
          ELSE /\ UNCHANGED processing_status
               /\ req' = [req EXCEPT ![r] = Fails(@, "KeyError")]
       /\ cancellation_flags' =
             IF t \in DOMAIN cancellation_flags
             THEN MapPut(cancellation_flags, t, FALSE) ELSE cancellation_flags
    /\ status_lock' = NoOwner
    /\ UNCHANGED <<ps_keys, hist>>
    /\ ReqFrame

\* main.py:480 the log line is appended; main.py:482 the answer
L480(r) ==
    /\ req[r].pc = "L480"
    /\ LET t == req[r].token IN
       IF t \in DOMAIN processing_status
       THEN /\ processing_status' =
                   [processing_status EXCEPT ![t] = SetField(@, "logs", CancelLog)]
            /\ req' = [req EXCEPT ![r].pc = "ret", ![r].resp = Response("cancelling", <<>>)]
       ELSE /\ UNCHANGED processing_status
            /\ req' = [req EXCEPT ![r] = Fails(@, "KeyError")]
    /\ status_lock' = NoOwner
    /\ UNCHANGED <<ps_keys, cancellation_flags, hist>>
    /\ ReqFrame

cancel_processing(r) ==
    \/ \E t \in Tokens : L473(r, t)
    \/ L476(r)
    \/ L478(r)
    \/ L480(r)

\* The handler has answered (or failed); the thread serves the next request
Answered(r) ==
    /\ req[r].pc = "ret"
    /\ req' = [req EXCEPT ![r] = NoRequest]
    /\ UNCHANGED <<processing_status, ps_keys, cancellation_flags, status_lock, hist>>
    /\ UNCHANGED <<now, reg, worker, meta, budget, scope, libvars>>

(***************************************************************************)
(* reset_workspace, main.py:731-754: processing_status.clear(), without    *)
(* the lock.  A scan of the dict that is under way (main.py:42-45) finds   *)
(* its size changed.                                                       *)
(***************************************************************************)
EmptyMap == [x \in {} |-> NoOwner]

reset_workspace ==
    /\ NoPending
    /\ budget.resets < MaxResets
    /\ budget' = [budget EXCEPT !.resets = @ + 1]
    /\ processing_status' = EmptyMap
    /\ ps_keys' = <<>>
    /\ req' = [r \in Reqs |->
                  IF req[r].pc = "L42" /\ DOMAIN processing_status # {}
                  THEN [req[r] EXCEPT !.broken = TRUE] ELSE req[r]]
    /\ hist' = [t \in Tokens |->
                  IF t \in DOMAIN processing_status
                  THEN [hist[t] EXCEPT !.evicted = "reset"] ELSE hist[t]]
    /\ UNCHANGED <<cancellation_flags, status_lock, now, reg, worker, meta, scope, libvars>>

\* Time passes
Tick ==
    /\ NoPending
    /\ budget.ticks < MaxTicks
    /\ budget' = [budget EXCEPT !.ticks = @ + 1]
    /\ now' = now + TickSeconds
    /\ UNCHANGED <<processing_status, ps_keys, cancellation_flags, status_lock,
                   reg, worker, req, meta, scope, hist, libvars>>

(***************************************************************************)
(* The system.                                                             *)
(***************************************************************************)
JobStart(sc) ==
    /\ scope = sc
    /\ processing_status = EmptyMap
    /\ ps_keys = <<>>
    /\ cancellation_flags = EmptyMap
    /\ status_lock = NoOwner
    /\ now = 0
    /\ reg = [t \in Tokens |-> 0]
    /\ worker = [t \in Tokens |-> NoWorker]
    /\ req = [r \in Reqs |-> NoRequest]
    /\ meta = [t \in Tokens |-> [translated_filename |-> "", detected_language |-> ""]]
    /\ budget = [cancels |-> 0, resets |-> 0, ticks |-> 0]
    /\ hist = [t \in Tokens |-> NoHist]

\* The state after import, no function call under way
Start(sc) ==
    /\ JobStart(sc)
    /\ extraction = NoExtract
    /\ page_run = NoPage
    /\ detection = NoScan
    /\ grounding = NoParse

\* The documents of a run: what detect_and_select_language_section finds,
\* how many pages are in the range to extract, what detect_language answers
AnyDocument ==
    [sections |-> {"unknown", "en", "de"},
     pages |-> 0..MaxPages,
     detected |-> {"English", "German", "Unknown"}]

\* One-page documents without language sections, written in German
GermanDocument ==
    [sections |-> {"unknown"}, pages |-> {1}, detected |-> {"German"}]

Threads(u, p, c) ==
    [uploads |-> u, unknown |-> {}, pollers |-> p, cancellers |-> c]

Scope(th, doc) == [x \in DOMAIN th \cup DOMAIN doc |->
                      IF x \in DOMAIN th THEN th[x] ELSE doc[x]]

\* One upload, one request thread that polls and cancels, also for a token
\* that was never given out
Init == Start(Scope([Threads({"t1"}, {"r1"}, {"r1"}) EXCEPT !.unknown = {"t2"}],
                   AnyDocument))

Next ==
    \/ \E t \in Tokens : process_manual(t)
    \/ \E t \in Tokens : process_manual_background(t)
    \/ \E r \in Reqs : get_processing_status(r)
    \/ \E r \in Reqs : cancel_processing(r)
    \/ \E r \in Reqs : Answered(r)
    \/ reset_workspace
    \/ Tick

Spec == Init /\ [][Next]_vars

\* One upload and one request thread that cancels, with resets; no poll and
\* no clock tick
InitJob == Start(Scope(Threads({"t1"}, {}, {"r1"}), AnyDocument))

NextJob ==
    \/ \E t \in Tokens : process_manual(t)
    \/ \E t \in Tokens : process_manual_background(t)
    \/ \E r \in Reqs : cancel_processing(r)
    \/ \E r \in Reqs : Answered(r)
    \/ reset_workspace

SpecJob == InitJob /\ [][NextJob]_vars

\* One upload and one request thread that polls, with resets and clock ticks
InitPoll == Start(Scope(Threads({"t1"}, {"r1"}, {}), AnyDocument))

NextPoll ==
    \/ \E t \in Tokens : process_manual(t)
    \/ \E t \in Tokens : process_manual_background(t)
    \/ \E r \in Reqs : get_processing_status(r)
    \/ \E r \in Reqs : Answered(r)
    \/ reset_workspace
    \/ Tick

SpecPoll == InitPoll /\ [][NextPoll]_vars

\* Two uploads, one request thread that cancels; no poll, reset or clock tick
InitPair == Start(Scope(Threads({"t1", "t2"}, {}, {"r1"}), GermanDocument))

NextPair ==
    \/ \E t \in Tokens : process_manual(t)
    \/ \E t \in Tokens : process_manual_background(t)
    \/ \E r \in Reqs : cancel_processing(r)
    \/ \E r \in Reqs : Answered(r)

SpecPair == InitPair /\ [][NextPair]_vars

\* One upload, one thread that polls and one that polls and cancels; no reset
InitRace == Start(Scope(Threads({"t1"}, {"r1", "r2"}, {"r2"}), GermanDocument))

NextRace ==
    \/ \E t \in Tokens : process_manual(t)
    \/ \E t \in Tokens : process_manual_background(t)
    \/ \E r \in Reqs : get_processing_status(r)
    \/ \E r \in Reqs : cancel_processing(r)
    \/ \E r \in Reqs : Answered(r)
    \/ Tick

SpecRace == InitRace /\ [][NextRace]_vars

\* One upload, one request thread that polls and one that cancels, with
\* clock ticks; no reset
InitWatch == Start(Scope(Threads({"t1"}, {"r1"}, {"r2"}), GermanDocument))

NextWatch ==
    \/ \E t \in Tokens : process_manual(t)
    \/ \E t \in Tokens : process_manual_background(t)
    \/ \E r \in Reqs : get_processing_status(r)
    \/ \E r \in Reqs : cancel_processing(r)
    \/ \E r \in Reqs : Answered(r)
    \/ Tick

SpecWatch == InitWatch /\ [][NextWatch]_vars

\* A step of the request that thread r is serving; the arrival of a request
\* is no such step
RequestStep(r) ==
    /\ req[r].op # "idle"
    /\ get_processing_status(r) \/ cancel_processing(r) \/ Answered(r)

\* A step of a registration that has begun
RegistrationStep(t) == reg[t] > 0 /\ process_manual(t)

\* One upload and one request thread that polls and cancels, with clock
\* ticks
InitFair == Start(Scope(Threads({"t1"}, {"r1"}, {"r1"}), GermanDocument))

\* The threads of InitFair under fair scheduling: a thread that has work to
\* do is scheduled again and again, a thread that waits for status_lock gets
\* it when it is free again and again (threading.Lock, main.py:32), and an
\* external call of the worker returns or raises.  No request, upload or
\* tick of the clock has to happen.
Fairness ==
    /\ SF_vars(process_manual_background("t1"))
    /\ SF_vars(RegistrationStep("t1"))
    /\ SF_vars(RequestStep("r1"))

SpecFair == InitFair /\ [][NextWatch]_vars /\ Fairness

(***************************************************************************)
(* extract_pdf_with_ocr, ocr_extraction.py:282-348.  One call, with the    *)
(* answers of its collaborators chosen freely: the document opens or not   *)
(* and has some number of pages, cancellation_check answers True or False, *)
(* extract_page_with_ocr returns a result, returns None (the render        *)
(* failed, ocr_extraction.py:245-246) or raises (the model call failed,    *)
(* ocr_extraction.py:249), progress_callback returns or raises.            *)
(***************************************************************************)
MaxDocPages == 3

\* end_page=None, ocr_extraction.py:288
NoEndPage == -1

Min(a, b) == IF a <= b THEN a ELSE b

\* The locals on entry, ocr_extraction.py:283-303; events is the record of
\* what the call did, read by no action
NewExtract(sp, ep, chk, cb) ==
    [pc |-> "O306", start_page |-> sp, end_page |-> ep,
     cancellation_check |-> chk, progress_callback |-> cb,
     page_count |-> 0, page_index |-> 0, results |-> <<>>, events |-> <<>>,
     calls |-> <<>>]

ExtractCalls ==
    {NewExtract(sp, ep, chk, cb) :
        sp \in 0..MaxDocPages, ep \in {NoEndPage} \cup 0..MaxDocPages,
        chk \in BOOLEAN, cb \in BOOLEAN}

\* ocr_extraction.py:314-315
actual_end_page(e) ==
    Min(IF e.end_page # NoEndPage THEN e.end_page ELSE e.page_count - 1,
        e.page_count - 1)

\* The loop of ocr_extraction.py:324 as range(actual_end_page + 1)
RangeStartZero(e) == 0

\* ocr_extraction.py:324 the first page of range(start_page, actual_end_page + 1)
RangeStart(e) == e.start_page

\* ocr_extraction.py:324 the loop goes on with the next page of the range
NextInRange(e) == [e EXCEPT !.pc = "O324", !.page_index = @ + 1]

\* ocr_extraction.py:321
pages_to_extract(e) == actual_end_page(e) - e.start_page + 1

\* A progress that counts the results so far
ProgressCountsResults(e) == Len(e.results)

\* ocr_extraction.py:331
current_progress(e) == e.page_index - e.start_page + 1

\* ocr_extraction.py:344 the arguments the callback is called with
ProgressCall(e) ==
    [e EXCEPT !.calls = Append(@, <<current_progress(e), pages_to_extract(e)>>)]

ExtractEvent(e, what, res) == [e EXCEPT !.events = Append(@, <<what, e.page_index, res>>)]

ExtractFrame == UNCHANGED <<jobvars, page_run, detection, grounding>>

\* ocr_extraction.py:305-311 the document is opened for its page count
Extract306 ==
    /\ extraction.pc = "O306"
    /\ \/ extraction' = [extraction EXCEPT !.pc = "return"]
       \/ \E n \in 0..MaxDocPages :
             extraction' = [extraction EXCEPT !.pc = "O317", !.page_count = n]
    /\ ExtractFrame

\* ocr_extraction.py:317-319
Extract317 ==
    /\ extraction.pc = "O317"
    /\ extraction' = IF extraction.start_page >= extraction.page_count
                     THEN [extraction EXCEPT !.pc = "return"]
                     ELSE [extraction EXCEPT !.pc = "O324",
                                             !.page_index = RangeStart(extraction)]
    /\ ExtractFrame

\* ocr_extraction.py:324 the head of the loop
Extract324 ==
    /\ extraction.pc = "O324"
    /\ extraction' = IF extraction.page_index > actual_end_page(extraction)
                     THEN [extraction EXCEPT !.pc = "return"]
                     ELSE [extraction EXCEPT !.pc = "O326"]
    /\ ExtractFrame

\* ocr_extraction.py:326-328 without the break
Extract326NoBreak ==
    /\ extraction.pc = "O326"
    /\ IF extraction.cancellation_check
       THEN \/ extraction' = [ExtractEvent(extraction, "check", "True") EXCEPT !.pc = "O334"]
            \/ extraction' = [ExtractEvent(extraction, "check", "False") EXCEPT !.pc = "O334"]
       ELSE extraction' = [extraction EXCEPT !.pc = "O334"]
    /\ ExtractFrame

\* ocr_extraction.py:326-328 "if cancellation_check and cancellation_check(): break"
Extract326 ==
    /\ extraction.pc = "O326"
    /\ IF extraction.cancellation_check
       THEN \/ extraction' = [ExtractEvent(extraction, "check", "True") EXCEPT !.pc = "return"]
            \/ extraction' = [ExtractEvent(extraction, "check", "False") EXCEPT !.pc = "O334"]
       ELSE extraction' = [extraction EXCEPT !.pc = "O334"]
    /\ ExtractFrame

\* ocr_extraction.py:334-340 extract_page_with_ocr; a page the document does
\* not have cannot be rendered
Extract334 ==
    /\ extraction.pc = "O334"
    /\ \/ /\ extraction.page_index < extraction.page_count
          /\ extraction' = [ExtractEvent(extraction, "page", "ok") EXCEPT
                               !.pc = "O342",
                               !.results = Append(@, extraction.page_index)]
       \/ extraction' = NextInRange(ExtractEvent(extraction, "page", "None"))
       \/ extraction' = [ExtractEvent(extraction, "page", "raise") EXCEPT !.pc = "raised"]
    /\ ExtractFrame

\* ocr_extraction.py:342-346 without the try/except
Extract342Propagates ==
    /\ extraction.pc = "O342"
    /\ IF extraction.progress_callback
       THEN \/ extraction' = NextInRange(ExtractEvent(ProgressCall(extraction), "progress", "returns"))
            \/ extraction' = [ExtractEvent(ProgressCall(extraction), "progress", "raises")
                                 EXCEPT !.pc = "raised"]
       ELSE extraction' = NextInRange(extraction)
    /\ ExtractFrame

\* ocr_extraction.py:342-346 "try: progress_callback(...) except Exception: pass"
Extract342 ==
    /\ extraction.pc = "O342"
    /\ IF extraction.progress_callback
       THEN \/ extraction' = NextInRange(ExtractEvent(ProgressCall(extraction), "progress", "returns"))
            \/ extraction' = NextInRange(ExtractEvent(ProgressCall(extraction), "progress", "raises"))
       ELSE extraction' = NextInRange(extraction)
    /\ ExtractFrame

extract_pdf_with_ocr == Extract306 \/ Extract317 \/ Extract324 \/ Extract326 \/ Extract334 \/ Extract342

\* No upload, no request
NoThreads == Scope(Threads({}, {}, {}), AnyDocument)

InitExtract ==
    /\ JobStart(NoThreads)
    /\ extraction \in ExtractCalls
    /\ page_run = NoPage /\ detection = NoScan /\ grounding = NoParse

NextExtract == extract_pdf_with_ocr

SpecExtract == InitExtract /\ [][NextExtract]_vars

(***************************************************************************)
(* extract_page_with_ocr, ocr_extraction.py:216-279.  One call on a page   *)
(* of a document, with the image directory as a set of file names.         *)
(***************************************************************************)
MaxFigures == 2

\* ocr_extraction.py:241 f"page_{page_num+1:03d}_temp.png"
TempName(p) == <<"page", p + 1, "temp">>

\* ocr_extraction.py:262 f"page_{page_num+1:03d}_image_{elem['index']}.png"
ImageName(p, k) == <<"page", p + 1, "image", k>>

\* The locals on entry; files is the content of images_dir
NewPage(p, fs) ==
    [pc |-> "O238", page_num |-> p, files |-> fs, n |-> 0, k |-> 0,
     image_filenames |-> <<>>, out |-> ""]

\* What images_dir can hold before the call: crops of the page before, and a
\* render left behind by a run that was killed
PageCalls ==
    UNION {{NewPage(p, fs) : fs \in SUBSET {ImageName(p - 1, 1), TempName(p)}} :
              p \in 1..MaxDocPages}

\* The finally clause without the unlink: the render is left for the caller
FinallyKeepsRender(q, how) == [q EXCEPT !.pc = "done", !.out = how]

\* ocr_extraction.py:276-279 the finally clause, entered by a return or by an
\* exception
PageFinally(q, how) ==
    [q EXCEPT !.pc = "done", !.out = how, !.files = @ \ {TempName(q.page_num)}]

PageFrame == UNCHANGED <<jobvars, extraction, detection, grounding>>

\* ocr_extraction.py:238-246 the directory is made and the page rendered; a
\* render that fails may leave its file behind
O245 ==
    /\ page_run.pc = "O238"
    /\ \/ page_run' = [page_run EXCEPT !.pc = "O249",
                                       !.files = @ \cup {TempName(page_run.page_num)}]
       \/ page_run' = PageFinally(page_run, "None")
       \/ page_run' = PageFinally([page_run EXCEPT
                                     !.files = @ \cup {TempName(page_run.page_num)}], "None")
    /\ PageFrame

\* ocr_extraction.py:249-257 the model is called, the image is opened for its
\* size and the output is parsed: n figures, or an exception
O249 ==
    /\ page_run.pc = "O249"
    /\ \/ \E n \in 0..MaxFigures :
             page_run' = [page_run EXCEPT !.pc = "O261", !.n = n, !.k = 1]
       \/ page_run' = PageFinally(page_run, "raise")
    /\ PageFrame

\* ocr_extraction.py:261-274 one figure is cropped and saved, or fails to be
\* (extract_image_region catches its exceptions); after the last one the
\* result is returned
O261 ==
    /\ page_run.pc = "O261"
    /\ IF page_run.k > page_run.n
       THEN page_run' = PageFinally(page_run, "result")
       ELSE LET name == ImageName(page_run.page_num, page_run.k) IN
            \/ page_run' = [page_run EXCEPT !.k = @ + 1,
                                            !.files = @ \cup {name},
                                            !.image_filenames = Append(@, name)]
            \/ page_run' = [page_run EXCEPT !.k = @ + 1]
    /\ PageFrame

extract_page_with_ocr == O245 \/ O249 \/ O261

InitOnePage ==
    /\ JobStart(NoThreads)
    /\ page_run \in PageCalls
    /\ extraction = NoExtract /\ detection = NoScan /\ grounding = NoParse

NextOnePage == extract_page_with_ocr

SpecOnePage == InitOnePage /\ [][NextOnePage]_vars

(***************************************************************************)
(* detect_and_select_language_section, language_detection.py:217-269,      *)
(* with scan_pdf_languages (73-111), group_consecutive_pages (114-162) and *)
(* select_best_language_section (165-214).                                 *)
(***************************************************************************)
MaxScanPages == 7

\* language_detection.py:97 "min(5, page_count)"
FirstPagesToCheck == 5

\* main.py:249 "sample_interval=2"
SampleInterval == 2

\* detect_page_language returned None (language_detection.py:54, 62, 70)
NoLang == ""

\* What detect_page_language answers for a page: an English page, a German
\* page, or none
PageLangs == {NoLang, "en", "de"}

\* language_detection.py:16-36
TRANSLATION_EASE_RANKING ==
    [en |-> 0, nl |-> 1, de |-> 2, da |-> 3, sv |-> 4, no |-> 5, fr |-> 6,
     es |-> 7, pt |-> 8, it |-> 9, ro |-> 10, pl |-> 11, cs |-> 12, ru |-> 13,
     tr |-> 14, ar |-> 15, zh |-> 16, ja |-> 17, ko |-> 18]

\* sorted(languages.keys()), language_detection.py:128
RECURSIVE Sorted(_)
Sorted(S) ==
    IF S = {} THEN <<>>
    ELSE LET least == CHOOSE x \in S : \A y \in S : x <= y
         IN  <<least>> \o Sorted(S \ {least})

\* The pages scan_pdf_languages looks at, language_detection.py:97-105
SampledPages(page_count) ==
    LET first == Min(FirstPagesToCheck, page_count) IN
    {p \in 0..page_count - 1 : p < first \/ (p - first) % SampleInterval = 0}

\* scan_pdf_languages, language_detection.py:93-111: the sampled pages that
\* have a language
scan_pdf_languages(page_lang, page_count) ==
    [p \in {q \in SampledPages(page_count) : page_lang[q] # NoLang} |-> page_lang[p]]

\* A section that ends on the first page of the next one
SectionEndsLate(lang, start, end, count) ==
    [language |-> lang, start_page |-> start, end_page |-> end + 1, page_count |-> count + 1]

\* language_detection.py:142-147, 155-160
Section(lang, start, end, count) ==
    [language |-> lang, start_page |-> start, end_page |-> end, page_count |-> count]

\* The loop of language_detection.py:134-151 from position i of sorted_pages
RECURSIVE GroupLoop(_, _, _, _, _, _)
GroupLoop(languages, sorted_pages, i, current_lang, current_start, sections) ==
    IF i > Len(sorted_pages) THEN <<current_lang, current_start, sections>>
    ELSE LET page_num == sorted_pages[i]
             lang == languages[page_num]
         IN  IF current_lang # lang
             THEN GroupLoop(languages, sorted_pages, i + 1, lang, page_num,
                            IF current_lang # NoLang
                            THEN Append(sections,
                                        Section(current_lang, current_start, page_num - 1,
                                                (page_num - 1) - current_start + 1))
                            ELSE sections)
             ELSE GroupLoop(languages, sorted_pages, i + 1, current_lang, current_start,
                            sections)

\* group_consecutive_pages, language_detection.py:114-162
group_consecutive_pages(languages, total_pages) ==
    IF DOMAIN languages = {} THEN <<>>
    ELSE LET end == GroupLoop(languages, Sorted(DOMAIN languages), 1, NoLang, 0, <<>>)
         IN  IF end[1] # NoLang
             THEN Append(end[3], Section(end[1], end[2], total_pages - 1, total_pages - end[2]))
             ELSE end[3]

\* language_detection.py:199 TRANSLATION_EASE_RANKING.get(lang, 999)
ease_rank(lang) ==
    IF lang \in DOMAIN TRANSLATION_EASE_RANKING THEN TRANSLATION_EASE_RANKING[lang] ELSE 999

\* language_detection.py:197-204, and the order of Python tuples
score_section(s) == <<ease_rank(s.language), 0 - s.page_count>>
TupleLess(a, b) == a[1] < b[1] \/ (a[1] = b[1] /\ a[2] < b[2])

\* The comparison of max with "<=" for ">": the last of the longest wins
NotShorterThan(s, b) == s.page_count >= b.page_count

\* language_detection.py:186 max(english_sections, key=page_count): a later
\* section replaces the best one only when it is longer
LongerThan(s, b) == s.page_count > b.page_count

RECURSIVE MaxFirst(_, _, _)
MaxFirst(seq, i, best) ==
    IF i > Len(seq) THEN best
    ELSE MaxFirst(seq, i + 1, IF LongerThan(seq[i], best) THEN seq[i] ELSE best)

\* The score without the ease rank: the longest section wins
ScoresLessByLength(s, b) == 0 - s.page_count < 0 - b.page_count

\* language_detection.py:206 min(sections, key=score_section): a later
\* section replaces the best one only when its score is smaller
ScoresLess(s, b) == TupleLess(score_section(s), score_section(b))

RECURSIVE MinFirst(_, _, _)
MinFirst(seq, i, best) ==
    IF i > Len(seq) THEN best
    ELSE MinFirst(seq, i + 1, IF ScoresLess(seq[i], best) THEN seq[i] ELSE best)

\* select_best_language_section returned None
NoSection == [language |-> NoLang]

\* select_best_language_section, language_detection.py:178-214
select_best_language_section(sections) ==
    IF sections = <<>> THEN NoSection
    ELSE LET english_sections == SelectSeq(sections, LAMBDA s : s.language = "en") IN
         IF english_sections # <<>>
         THEN MaxFirst(english_sections, 2, english_sections[1])
         ELSE MinFirst(sections, 2, sections[1])

\* The locals on entry of detect_and_select_language_section; page_lang is
\* what detect_page_language answers for each page of the document
NewDetect(n, pl) ==
    [pc |-> "L231", total_pages |-> n, page_lang |-> pl,
     languages |-> <<>>, sections |-> <<>>, best |-> NoSection, result |-> <<>>]

DetectCalls ==
    UNION {{NewDetect(n, pl) : pl \in [0..n - 1 -> PageLangs]} : n \in 0..MaxScanPages}

DetectFrame == UNCHANGED <<jobvars, extraction, page_run, grounding>>

\* A return of None, language_detection.py:236, 243, 250, 263
ReturnNone(d) == [d EXCEPT !.pc = "return", !.result = <<>>]

\* language_detection.py:230-236 the document is opened for its page count
L231 ==
    /\ detection.pc = "L231"
    /\ \/ detection' = ReturnNone(detection)
       \/ detection' = [detection EXCEPT !.pc = "L239"]
    /\ DetectFrame

\* language_detection.py:239-243
L239 ==
    /\ detection.pc = "L239"
    /\ LET languages == scan_pdf_languages(detection.page_lang, detection.total_pages) IN
       detection' = IF DOMAIN languages = {} THEN ReturnNone(detection)
                    ELSE [detection EXCEPT !.pc = "L246", !.languages = languages]
    /\ DetectFrame

\* language_detection.py:246-250
L246 ==
    /\ detection.pc = "L246"
    /\ LET sections == group_consecutive_pages(detection.languages, detection.total_pages) IN
       detection' = IF sections = <<>> THEN ReturnNone(detection)
                    ELSE [detection EXCEPT !.pc = "L260", !.sections = sections]
    /\ DetectFrame

\* language_detection.py:260-269
L260 ==
    /\ detection.pc = "L260"
    /\ LET best_section == select_best_language_section(detection.sections) IN
       detection' = IF best_section = NoSection THEN ReturnNone(detection)
                    ELSE [detection EXCEPT
                            !.pc = "return", !.best = best_section,
                            !.result = <<best_section.language, best_section.start_page,
                                         best_section.end_page>>]
    /\ DetectFrame

detect_and_select_language_section == L231 \/ L239 \/ L246 \/ L260

InitDetect ==
    /\ JobStart(NoThreads)
    /\ detection \in DetectCalls
    /\ extraction = NoExtract /\ page_run = NoPage /\ grounding = NoParse

NextDetect == detect_and_select_language_section

SpecDetect == InitDetect /\ [][NextDetect]_vars

(***************************************************************************)
(* select_best_language_section on section lists of any origin,            *)
(* language_detection.py:165-214.                                          *)
(***************************************************************************)
MaxSections == 3

\* Languages of the sections: English, two ranked languages (German before
\* Arabic) and one the table does not rank
SectionLangs == {"en", "de", "ar", "xx"}

SectionLengths == {1, 10, 40}

RECURSIVE SeqsUpTo(_, _)
SeqsUpTo(S, n) ==
    IF n = 0 THEN {<<>>}
    ELSE LET shorter == SeqsUpTo(S, n - 1)
         IN  shorter \cup {Append(q, x) : q \in {r \in shorter : Len(r) = n - 1}, x \in S}

SelectCalls ==
    {[NewDetect(0, <<>>) EXCEPT !.pc = "L260", !.sections = secs] :
        secs \in SeqsUpTo({Section(lang, 0, c - 1, c) :
                              lang \in SectionLangs, c \in SectionLengths}, MaxSections)}

InitSelect ==
    /\ JobStart(NoThreads)
    /\ detection \in SelectCalls
    /\ extraction = NoExtract /\ page_run = NoPage /\ grounding = NoParse

NextSelect == L260

SpecSelect == InitSelect /\ [][NextSelect]_vars

(***************************************************************************)
(* Python floats (IEEE 754 binary64, round to nearest, ties to even) as    *)
(* far as calculate_ollama_scale and parse_grounding_output use them: the  *)
(* quotient of two positive integers, the product of a non-negative        *)
(* integer and a float, and int() of a float.  A float is a record of the  *)
(* binary digits of its significand, most significant first, and the       *)
(* number frac of those digits that stand after the binary point.  The     *)
(* arithmetic is done on limbs of LimbBits binary digits, so that every    *)
(* intermediate value stays below 2^31.                                     *)
(***************************************************************************)
Precision == 53

LimbBits == 16

LimbBase == 2^LimbBits

\* Limbs of the quotient after the binary point
FractionLimbs == 5

RECURSIVE BitsValue(_)
BitsValue(b) ==
    IF b = <<>> THEN 0 ELSE 2 * BitsValue(SubSeq(b, 1, Len(b) - 1)) + b[Len(b)]

\* The binary digits of a sequence of limbs, most significant first
ToBits(limbs) ==
    [j \in 1..(LimbBits * Len(limbs)) |->
        (limbs[((j - 1) \div LimbBits) + 1]
            \div 2^(LimbBits - 1 - ((j - 1) % LimbBits))) % 2]

\* The limbs of a sequence of binary digits
ToLimbs(b) ==
    LET n == (Len(b) + LimbBits - 1) \div LimbBits
        padded == [j \in 1..(n * LimbBits - Len(b)) |-> 0] \o b
    IN  [i \in 1..n |-> BitsValue(SubSeq(padded, LimbBits * (i - 1) + 1, LimbBits * i))]

\* The digits without their leading zeros
Strip(b) ==
    IF \A i \in DOMAIN b : b[i] = 0 THEN <<>>
    ELSE LET first == CHOOSE i \in DOMAIN b : b[i] = 1 /\ \A j \in 1..(i - 1) : b[j] = 0
         IN  SubSeq(b, first, Len(b))

\* The digits plus one
Inc(b) ==
    IF \A i \in DOMAIN b : b[i] = 1 THEN <<1>> \o [i \in DOMAIN b |-> 0]
    ELSE LET last == CHOOSE i \in DOMAIN b : b[i] = 0 /\ \A j \in (i + 1)..Len(b) : b[j] = 1
         IN  [i \in DOMAIN b |-> IF i < last THEN b[i] ELSE IF i = last THEN 1 ELSE 0]

\* Rounding of the digits b (leading digit 1, frac of them after the point,
\* sticky when a non-zero rest follows them) to Precision digits
RoundToFloat(b, frac, sticky) ==
    IF Len(b) <= Precision THEN [mant |-> b, frac |-> frac]
    ELSE LET kept == SubSeq(b, 1, Precision)
             rest == \E i \in (Precision + 2)..Len(b) : b[i] = 1
             up == b[Precision + 1] = 1 /\ (sticky \/ rest \/ kept[Precision] = 1)
             m == IF up THEN Inc(kept) ELSE kept
             dropped == Len(b) - Precision
         IN  IF Len(m) > Precision
             THEN [mant |-> SubSeq(m, 1, Precision), frac |-> frac - dropped - 1]
             ELSE [mant |-> m, frac |-> frac - dropped]

\* Long division: the limbs of r / d after the point and the last remainder
RECURSIVE DivLimbs(_, _, _)
DivLimbs(r, d, n) ==
    IF n = 0 THEN [limbs |-> <<>>, rem |-> r]
    ELSE LET next == DivLimbs((r * LimbBase) % d, d, n - 1)
         IN  [limbs |-> <<(r * LimbBase) \div d>> \o next.limbs, rem |-> next.rem]

\* a / d for integers 0 < a < LimbBase, 0 < d < 2^14
FloatDiv(a, d) ==
    LET q == DivLimbs(a % d, d, FractionLimbs)
    IN  RoundToFloat(Strip(ToBits(<<a \div d>> \o q.limbs)),
                     LimbBits * FractionLimbs, q.rem # 0)

\* The limbs times the integer x, plus carry
RECURSIVE MulLimbs(_, _, _)
MulLimbs(limbs, x, carry) ==
    IF limbs = <<>> THEN <<carry>>
    ELSE LET t == limbs[Len(limbs)] * x + carry
         IN  Append(MulLimbs(SubSeq(limbs, 1, Len(limbs) - 1), x, t \div LimbBase),
                    t % LimbBase)

\* x * f for an integer 0 < x < 2^14
FloatMul(x, f) ==
    RoundToFloat(Strip(ToBits(MulLimbs(ToLimbs(f.mant), x, 0))), f.frac, FALSE)

\* int(f) for f > 0
IntOf(f) ==
    IF f.frac >= Len(f.mant) THEN 0
    ELSE BitsValue(SubSeq(f.mant, 1, Len(f.mant) - f.frac))

\* ocr_extraction.py:146-149 int(x * scale) for a coordinate the pattern's
\* \d+ matched
ScaledCoordinate(x, scale) == IF x = 0 THEN 0 ELSE IntOf(FloatMul(x, scale))

(***************************************************************************)
(* parse_grounding_output, ocr_extraction.py:111-172.  The text of the     *)
(* model is the sequence of its regex matches, each an annotation type and *)
(* the top edge y1 of its box in the model's 1000 x 1000 space; the other  *)
(* three coordinates are scaled and carried the same way and decide        *)
(* nothing.  Each element carries the ordinal of its match.                *)
(***************************************************************************)
MaxAnnotations == 3

\* ocr_extraction.py:91 model_size, the divisor of calculate_ollama_scale
ModelSize == 1000

\* Heights of the rendered page: scale_y is height / ModelSize
ImageHeights == {500, 1000}

AnnotationTypes == {"image", "Figure", "text"}

TopEdges == {0, 1, 2}

\* ocr_extraction.py:152 element_type.lower() in ["image", "figure"]
IsFigure(type) == Lower(type) \in {"image", "figure"}

\* ocr_extraction.py:147 int(y1 * scale_y), scale_y the height's share of
\* calculate_ollama_scale
Scaled(y, height) == ScaledCoordinate(y, FloatDiv(height, ModelSize))

NewParse(text, height) ==
    [pc |-> "L136", grounding_text |-> text, height |-> height, match |-> 1,
     elements |-> <<>>, result |-> <<>>]

ParseCalls ==
    {NewParse(text, height) :
        text \in SeqsUpTo([type : AnnotationTypes, y1 : TopEdges], MaxAnnotations),
        height \in ImageHeights}

ParseFrame == UNCHANGED <<jobvars, extraction, page_run, detection>>

\* ocr_extraction.py:136-163 one match of the pattern
L136 ==
    /\ grounding.pc = "L136"
    /\ grounding.match <= Len(grounding.grounding_text)
    /\ LET a == grounding.grounding_text[grounding.match]
           y1_scaled == Scaled(a.y1, grounding.height)
           element == [type |-> a.type, coords |-> y1_scaled,
                       index |-> Len(SelectSeq(grounding.elements,
                                               LAMBDA e : IsFigure(e.type))) + 1,
                       y_position |-> y1_scaled, match |-> grounding.match]
       IN  grounding' = [grounding EXCEPT
               !.match = @ + 1,
               !.elements = IF IsFigure(a.type) THEN Append(@, element) ELSE @]
    /\ ParseFrame

\* An unstable sort: an element goes before the elements of equal key
InsertBeforeEqual(sorted, e) ==
    LET before == SelectSeq(sorted, LAMBDA x : x.y_position < e.y_position)
        after == SelectSeq(sorted, LAMBDA x : x.y_position >= e.y_position)
    IN  before \o <<e>> \o after

\* list.sort is stable: an element goes after the elements of equal key
InsertByKey(sorted, e) ==
    LET before == SelectSeq(sorted, LAMBDA x : x.y_position <= e.y_position)
        after == SelectSeq(sorted, LAMBDA x : x.y_position > e.y_position)
    IN  before \o <<e>> \o after

RECURSIVE SortByKey(_)
SortByKey(elements) ==
    IF elements = <<>> THEN <<>>
    ELSE InsertByKey(SortByKey(SubSeq(elements, 1, Len(elements) - 1)),
                     elements[Len(elements)])

\* ocr_extraction.py:166 elements.sort(key=lambda x: x["y_position"])
L166 ==
    /\ grounding.pc = "L136"
    /\ grounding.match > Len(grounding.grounding_text)
    /\ grounding' = [grounding EXCEPT !.pc = "L169", !.elements = SortByKey(@)]
    /\ ParseFrame

\* ocr_extraction.py:169-172 renumbering and return
L169 ==
    /\ grounding.pc = "L169"
    /\ LET renumbered == [k \in DOMAIN grounding.elements |->
                             [grounding.elements[k] EXCEPT !.index = k]]
       IN  grounding' = [grounding EXCEPT !.pc = "return", !.elements = renumbered,
                                          !.result = renumbered]
    /\ ParseFrame

parse_grounding_output == L136 \/ L166 \/ L169

InitParse ==
    /\ JobStart(NoThreads)
    /\ grounding \in ParseCalls
    /\ extraction = NoExtract /\ page_run = NoPage /\ detection = NoScan

NextParse == parse_grounding_output

SpecParse == InitParse /\ [][NextParse]_vars

(***************************************************************************)
(* The rescaling of one box: calculate_ollama_scale on the size of the     *)
(* rendered page, ocr_extraction.py:90-108 as called at 253-254, and the   *)
(* four products of parse_grounding_output, ocr_extraction.py:145-149.     *)
(***************************************************************************)
\* Widths and heights of the rendered page, in pixels
ImageSides == {500, 1000, 1001, 1191, 1684, 2000, 2002}

\* Boxes of the model's 1000 x 1000 space, [[x1, y1, x2, y2]]
ModelBoxes ==
    {<<x1, y1, x2, y2>> : x1 \in {0, 500}, y1 \in {0, 500},
                          x2 \in {500, 1000}, y2 \in {500, 1000}}

\* ocr_extraction.py:106-108
calculate_ollama_scale(original_width, original_height) ==
    <<FloatDiv(original_width, ModelSize), FloatDiv(original_height, ModelSize)>>

NewScale(width, height, box) ==
    [pc |-> "L254", width |-> width, height |-> height, box |-> box,
     scale |-> <<>>, coords |-> <<>>]

ScaleCalls ==
    {NewScale(width, height, box) :
        width \in ImageSides, height \in ImageSides, box \in ModelBoxes}

\* ocr_extraction.py:253-254
L254 ==
    /\ grounding.pc = "L254"
    /\ grounding' = [grounding EXCEPT
           !.pc = "L146",
           !.scale = calculate_ollama_scale(grounding.width, grounding.height)]
    /\ ParseFrame

\* ocr_extraction.py:145-149
L146 ==
    /\ grounding.pc = "L146"
    /\ grounding' = [grounding EXCEPT
           !.pc = "scaled",
           !.coords = <<ScaledCoordinate(grounding.box[1], grounding.scale[1]),
                        ScaledCoordinate(grounding.box[2], grounding.scale[2]),
                        ScaledCoordinate(grounding.box[3], grounding.scale[1]),
                        ScaledCoordinate(grounding.box[4], grounding.scale[2])>>]
    /\ ParseFrame

InitScale ==
    /\ JobStart(NoThreads)
    /\ grounding \in ScaleCalls
    /\ extraction = NoExtract /\ page_run = NoPage /\ detection = NoScan

NextScale == L254 \/ L146

SpecScale == InitScale /\ [][NextScale]_vars

(***************************************************************************)
(* clean_grounding_tags, ocr_extraction.py:197-213.  A text is a sequence  *)
(* of characters; re.sub replaces the leftmost non-overlapping matches in  *)
(* one pass from left to right, one match per step of the model.           *)
(***************************************************************************)
MaxFragments == 3

WordChars == {"r", "e", "f", "d", "t", "x", "1"}   \* \w
DigitChars == {"1"}                                  \* \d
SpaceChars == {" "}                                  \* \s

\* The end of the longest run of characters of class at position i
RunEnd(s, i, class) ==
    CHOOSE j \in i..(Len(s) + 1) :
        /\ \A k \in i..(j - 1) : s[k] \in class
        /\ j = Len(s) + 1 \/ s[j] \notin class

Lit(chars) == [kind |-> "lit", chars |-> chars]
Plus(class) == [kind |-> "plus", class |-> class]
Star(class) == [kind |-> "star", class |-> class]

\* ocr_extraction.py:205-207
\* <\|ref\|>\w+<\|/ref\|><\|det\|>\[\[\d+,\s*\d+,\s*\d+,\s*\d+\]\]<\|/det\|>\s*
TagPattern ==
    << Lit(<<"<", "|", "r", "e", "f", "|", ">">>), Plus(WordChars),
       Lit(<<"<", "|", "/", "r", "e", "f", "|", ">",
             "<", "|", "d", "e", "t", "|", ">", "[", "[">>),
       Plus(DigitChars), Lit(<<",">>), Star(SpaceChars),
       Plus(DigitChars), Lit(<<",">>), Star(SpaceChars),
       Plus(DigitChars), Lit(<<",">>), Star(SpaceChars),
       Plus(DigitChars),
       Lit(<<"]", "]", "<", "|", "/", "d", "e", "t", "|", ">">>), Star(SpaceChars) >>

\* The position after a match of the items k.. of the pattern at position i,
\* or 0.  Each run is followed by a character outside its class, so the
\* greedy run is the only one that can match.
RECURSIVE MatchItems(_, _, _)
MatchItems(s, i, k) ==
    IF k > Len(TagPattern) THEN i
    ELSE LET item == TagPattern[k]
             j == IF item.kind = "lit"
                  THEN IF /\ i + Len(item.chars) - 1 <= Len(s)
                          /\ SubSeq(s, i, i + Len(item.chars) - 1) = item.chars
                       THEN i + Len(item.chars) ELSE 0
                  ELSE LET e == RunEnd(s, i, item.class)
                       IN  IF item.kind = "plus" /\ e = i THEN 0 ELSE e
         IN  IF j = 0 THEN 0 ELSE MatchItems(s, j, k + 1)

\* The position after the annotation tag that starts at i, or 0
TagEnd(s, i) == MatchItems(s, i, 1)

\* ocr_extraction.py:211 <\|[^>]+\|> : the position after the marker that
\* starts at i, or 0.  [^>]+ cannot pass a ">", so the marker ends at the
\* first ">" after its first inner character.
MarkerEnd(s, i) ==
    IF /\ i + 4 <= Len(s)
       /\ s[i] = "<" /\ s[i + 1] = "|" /\ s[i + 2] # ">"
       /\ \E j \in (i + 3)..Len(s) : s[j] = ">"
    THEN LET j == CHOOSE j \in (i + 3)..Len(s) :
                     s[j] = ">" /\ \A k \in (i + 3)..(j - 1) : s[k] # ">"
         IN  IF j >= i + 4 /\ s[j - 1] = "|" THEN j + 1 ELSE 0
    ELSE 0

\* One step of re.sub(pattern, "", text): the leftmost match at or after pos
\* is dropped, or the rest of the text is kept
SubStep(c, End(_, _), next) ==
    LET starts == {i \in c.pos..Len(c.text) : End(c.text, i) # 0}
    IN  IF starts # {}
        THEN LET i == CHOOSE i \in starts : \A j \in starts : i <= j
             IN  [c EXCEPT !.out = @ \o SubSeq(c.text, c.pos, i - 1),
                           !.pos = End(c.text, i)]
        ELSE [c EXCEPT !.pc = next,
                       !.text = c.out \o SubSeq(c.text, c.pos, Len(c.text)),
                       !.pos = 1, !.out = <<>>]

\* str.strip()
Stripped(s) ==
    IF \A i \in DOMAIN s : s[i] \in SpaceChars THEN <<>>
    ELSE LET first == CHOOSE i \in DOMAIN s :
                         s[i] \notin SpaceChars /\ \A j \in 1..(i - 1) : s[j] \in SpaceChars
             last == CHOOSE i \in DOMAIN s :
                         s[i] \notin SpaceChars /\ \A j \in (i + 1)..Len(s) : s[j] \in SpaceChars
         IN  SubSeq(s, first, last)

\* Pieces of OCR output: an annotation tag, a stray marker, the two parts of
\* a marker, prose
Fragments ==
    { <<"<", "|", "r", "e", "f", "|", ">", "x", "<", "|", "/", "r", "e", "f", "|", ">",
        "<", "|", "d", "e", "t", "|", ">", "[", "[", "1", ",", " ", "1", ",", "1", ",",
        "1", "1", "]", "]", "<", "|", "/", "d", "e", "t", "|", ">", " ">>,
      <<"<", "|", "x", "|", ">">>,
      <<"<">>,
      <<"|", "x", "|", ">">>,
      <<"x", " ">> }

RECURSIVE Concat(_)
Concat(pieces) ==
    IF pieces = <<>> THEN <<>> ELSE pieces[1] \o Concat(Tail(pieces))

NewClean(text) ==
    [pc |-> "L208", raw_output |-> text, text |-> text, pos |-> 1, out |-> <<>>,
     cleaned |-> <<>>]

CleanCalls == {NewClean(Concat(pieces)) : pieces \in SeqsUpTo(Fragments, MaxFragments)}

\* ocr_extraction.py:208 cleaned = re.sub(pattern, "", text)
L208 ==
    /\ grounding.pc = "L208"
    /\ grounding' = SubStep(grounding, TagEnd, "L211")
    /\ ParseFrame

\* ocr_extraction.py:211 cleaned = re.sub(r"<\|[^>]+\|>", "", cleaned)
L211 ==
    /\ grounding.pc = "L211"
    /\ grounding' = SubStep(grounding, MarkerEnd, "L213")
    /\ ParseFrame

\* ocr_extraction.py:213 return cleaned.strip()
L213 ==
    /\ grounding.pc = "L213"
    /\ grounding' = [grounding EXCEPT !.pc = "return", !.cleaned = Stripped(grounding.text)]
    /\ ParseFrame

clean_grounding_tags == L208 \/ L211 \/ L213

InitClean ==
    /\ JobStart(NoThreads)
    /\ grounding \in CleanCalls
    /\ extraction = NoExtract /\ page_run = NoPage /\ detection = NoScan

NextClean == clean_grounding_tags

SpecClean == InitClean /\ [][NextClean]_vars

(***************************************************************************)
(* Properties.                                                             *)
(***************************************************************************)
HasRecord(t) == t \in DOMAIN processing_status

Stage(t) == processing_status[t].stage

Status(t) == processing_status[t].status

Range(s) == {s[i] : i \in DOMAIN s}

PipelineStages ==
    {"starting", "language_scan", "ocr_extraction", "ocr_complete",
     "language_detection", "translating", "generating_reference"}

\* The forward order of the stages, with "language_detection" optional and
\* one of "translating" / "generating_reference" taken
ForwardEdges ==
    {<<"starting", "language_scan">>,
     <<"language_scan", "ocr_extraction">>,
     <<"ocr_extraction", "ocr_complete">>,
     <<"ocr_complete", "language_detection">>,
     <<"ocr_complete", "translating">>,
     <<"ocr_complete", "generating_reference">>,
     <<"language_detection", "translating">>,
     <<"language_detection", "generating_reference">>,
     <<"translating", "complete">>,
     <<"generating_reference", "complete">>}

StageEdges == ForwardEdges \cup (PipelineStages \X {"cancelled", "error"})

\* C1: within one token's job the recorded stage only moves forward through
\* starting, language_scan, ocr_extraction, ocr_complete, optionally
\* language_detection, one of translating / generating_reference, complete;
\* the only other exits are cancelled and error, and nothing follows a
\* terminal stage.  A record is created at "starting", so "complete" is
\* recorded only after language_scan, ocr_extraction, ocr_complete and one
\* of translating / generating_reference.
C1_StageOrder ==
    [][\A t \in Tokens :
          HasRecord(t)' =>
              IF HasRecord(t)
              THEN Stage(t)' = Stage(t) \/ <<Stage(t), Stage(t)'>> \in StageEdges
              ELSE Stage(t)' = "starting" /\ hist[t].created = -1]_vars

\* C1 witness: a job went through the pipeline to "complete"
C1_Witness ==
    \E t \in Tokens : HasRecord(t) /\ Stage(t) = "complete" /\ worker[t].pc = "done"

\* The "return" statements of the four checkpoints (main.py:257, 293, 322, 356)
CancelReturns == {"return257", "return293", "return322", "return356"}

\* The statements of the checkpoints' cancel branches
CancelBlock == {"L252", "L253", "L288", "L289", "L317", "L318", "L351", "L352"}

Stopped(t) == worker[t].pc \in CancelBlock \/ worker[t].via \in CancelReturns

\* C2: when a cancel has set the flag of a token before its worker executes
\* checkpoint B, the worker takes the cancel branch at B, and at no
\* checkpoint without the flag having been set; a page check of the
\* extraction leads to the checkpoint after it.  A worker that returned from
\* a cancel branch left status = stage = "cancelled" and the log entry in the
\* job record, and after it entered the branch no other stage is recorded.
\* (The job record is the one in the job map: a job evicted by the sweep or
\* a reset has no record to write to.)
C2_StopsAtNextCheckpoint ==
    /\ [](\A t \in Tokens :
            worker[t].via \in CancelReturns /\ HasRecord(t) =>
                /\ Status(t) = "cancelled"
                /\ Stage(t) = "cancelled"
                /\ CancelledLog \in Range(processing_status[t].logs))
    /\ [][\A t \in Tokens :
            /\ worker[t].pc \in CheckLabels /\ worker[t]' # worker[t] /\ HasRecord(t) =>
                  (worker[t].pc' = CancelBranch(worker[t].pc)) = (hist[t].cancelSet # "no")
            /\ worker[t].pc = "O326" /\ worker[t]' # worker[t] /\ HasRecord(t)
                  /\ hist[t].cancelSet # "no" => worker[t].pc' = "L287"
            /\ Stopped(t) /\ HasRecord(t) /\ HasRecord(t)' =>
                  Stage(t)' \in {Stage(t), "cancelled"}]_vars

\* C2 witness: a cancel set the flag after the checkpoint at main.py:287 was
\* passed, and the worker returned from the checkpoint at main.py:316
C2_Witness ==
    \E t \in Tokens :
        /\ worker[t].pc = "done" /\ worker[t].via = "return322"
        /\ hist[t].cancelSet = "in_time"
        /\ HasRecord(t) /\ Status(t) = "cancelled" /\ Stage(t) = "cancelled"

Ended(t) == worker[t].pc = "done" /\ HasRecord(t)

C4_ZeroPagesEndsError ==
    \A t \in Tokens : hist[t].zero /\ Ended(t) => Status(t) = "error"

\* C4 amended: a job whose OCR range extraction returned zero pages is never
\* complete; it ends with status "error" through the exception handler, or
\* with status "cancelled" at the checkpoint main.py:287 that precedes the
\* test for an empty result.
C4_ZeroPagesNeverComplete ==
    \A t \in Tokens :
        hist[t].zero /\ HasRecord(t) =>
            /\ Status(t) # "complete"
            /\ worker[t].pc = "done" =>
                  \/ Status(t) = "error" /\ worker[t].via = "except"
                  \/ Status(t) = "cancelled" /\ worker[t].via = "return293"

\* C4 witness: an extraction without pages, no cancel, the job ended in error
C4_Witness ==
    \E t \in Tokens :
        /\ hist[t].zero /\ hist[t].cancelSet = "no"
        /\ Ended(t) /\ Status(t) = "error" /\ Stage(t) = "error"

\* C5 as stated: once the worker of a token has terminated, whichever way,
\* the flag map holds no entry for the token, under every interleaving with
\* cancels and polls.
C5_NoFlagAfterTermination ==
    \A t \in Tokens : worker[t].pc = "done" => t \notin DOMAIN cancellation_flags

\* How many times line x occurs in the log s
RECURSIVE Count(_, _)
Count(s, x) ==
    IF s = <<>> THEN 0 ELSE (IF Head(s) = x THEN 1 ELSE 0) + Count(Tail(s), x)

\* Request thread r takes a step of a cancel request
CancelStep(r) == req[r]' # req[r] /\ req[r]'.op = "cancel"

\* C6: a cancel request for a token without a flag fails (404) and changes
\* neither map.  A cancel request for a token with a flag is not refused; it
\* writes True to that flag and nothing else to the flag map, and appends
\* exactly one line, the cancellation notice, to the logs of the token's job
\* record and nothing else to the job map.  (The record is the one in the
\* job map; a job removed from the map by a reset has no record to append to.)
C6_CancelRequest ==
    /\ [](\A t \in Tokens :
            HasRecord(t) =>
                Count(processing_status[t].logs, CancelLog) <= budget.cancels)
    /\ [](\A r \in Reqs :
            req[r].op = "cancel" /\ req[r].pc = "ret" /\ req[r].resp.kind = "cancelling"
               /\ HasRecord(req[r].token) =>
                  Count(processing_status[req[r].token].logs, CancelLog) >= 1)
    /\ [][\A r \in Reqs :
            CancelStep(r) =>
              LET t == req[r]'.token
                  flagsSame == cancellation_flags' = cancellation_flags
                  jobsSame == processing_status' = processing_status
              IN  /\ req[r].op = "idle" =>
                        /\ flagsSame /\ jobsSame
                        /\ (req[r]'.pc = "ret") = (t \notin DOMAIN cancellation_flags)
                        /\ req[r]'.pc = "ret" => req[r]'.resp.kind = "404"
                  /\ req[r].pc = "L476" =>
                        /\ jobsSame
                        /\ cancellation_flags' = MapPut(cancellation_flags, t, TRUE)
                  /\ req[r].pc \in {"L478", "L480"} =>
                        /\ flagsSame
                        /\ t \in DOMAIN processing_status' =>
                              \/ jobsSame /\ req[r].pc = "L478" /\ req[r]'.pc = "L480"
                              \/ /\ HasRecord(t) /\ req[r].pc = "L480"
                                 /\ req[r]'.resp.kind = "cancelling"
                                 /\ processing_status' =
                                       [processing_status EXCEPT
                                           ![t].logs = Append(@, CancelLog)]]_vars

\* C6 witness: a cancel request for a token with a flag has answered; the
\* flag is True and the notice is in the logs of the job record
C6_Witness ==
    \E r \in Reqs :
        /\ req[r].op = "cancel" /\ req[r].pc = "ret" /\ req[r].resp.kind = "cancelling"
        /\ req[r].token \in DOMAIN cancellation_flags
        /\ cancellation_flags[req[r].token]
        /\ HasRecord(req[r].token)
        /\ Count(processing_status[req[r].token].logs, CancelLog) = 1

\* C7 as stated: a status poll never fails; its answer is a snapshot of the
\* job record or the synthetic not-found record.
C7_PollNeverFails ==
    \A r \in Reqs :
        req[r].op = "poll" /\ req[r].pc = "ret" =>
            req[r].resp.kind \in {"snapshot", "not_found"}

\* The sweep of poll r is over
SweepDone(r) == req[r].op = "poll" /\ req[r].pc \in {"L454", "L462", "ret"}

\* C8 as stated: once the sweep of a status poll has run, the job map holds
\* no entry that was older than the TTL at the time of the sweep, the flag
\* map holds no flag of a token the sweep evicted, and the poll of an evicted
\* token answers with the not-found record.
C8_AfterSweep ==
    \A r \in Reqs :
        SweepDone(r) =>
            /\ \A t \in Tokens :
                  /\ HasRecord(t) => ~Expired(processing_status[t], req[r].current_time)
                  /\ t \in req[r].swept => t \notin DOMAIN cancellation_flags
            /\ req[r].pc = "ret" /\ req[r].token \in req[r].swept =>
                  req[r].resp.kind = "not_found"

HasFlag(t) == t \in DOMAIN cancellation_flags

\* C9: process_manual creates the job record, with status "processing" and
\* stage "starting", and the flag, False, before it dispatches the worker:
\* both are created while the worker is idle, they are there when the worker
\* is dispatched, and a worker that has taken a step has a record unless the
\* sweep or a reset removed it.  A poll of a token that process_manual has
\* returned answers not-found only after a reset or after the TTL expired.
C9_RecordBeforeDispatch ==
    /\ [](\A t \in Tokens :
            worker[t].pc # "idle" => HasRecord(t) \/ hist[t].evicted # "no")
    /\ [](\A r \in Reqs :
            LET t == req[r].token IN
            req[r].op = "poll" /\ req[r].pc = "ret" /\ t \in scope.uploads
               /\ req[r].resp.kind = "not_found" =>
                  \/ hist[t].evicted = "reset"
                  \/ hist[t].evicted = "ttl" /\ now - hist[t].created > STATUS_TTL_SECONDS)
    /\ [][\A t \in Tokens :
            /\ ~HasRecord(t) /\ HasRecord(t)' =>
                  /\ Status(t)' = "processing" /\ Stage(t)' = "starting"
                  /\ worker[t].pc = "idle" /\ worker[t].pc' = "idle"
            /\ ~HasFlag(t) /\ HasFlag(t)' /\ reg[t]' # reg[t] =>
                  /\ ~cancellation_flags[t]'
                  /\ worker[t].pc = "idle" /\ worker[t].pc' = "idle"
            /\ worker[t].pc = "idle" /\ worker[t].pc' # "idle" /\ hist[t].evicted = "no" =>
                  HasRecord(t) /\ HasFlag(t) /\ ~cancellation_flags[t]]_vars

\* C9 witness: the first poll after the token was returned finds the record
\* as process_manual created it, the worker being dispatched
C9_Witness ==
    \E r \in Reqs :
        LET t == req[r].token IN
        /\ req[r].op = "poll" /\ req[r].pc = "ret" /\ t \in scope.uploads
        /\ worker[t].pc # "idle"
        /\ req[r].resp.kind = "snapshot"
        /\ req[r].resp.body.stage = "starting"
        /\ hist[t].evicted = "no"

\* The entry of key u in map m: <<m[u]>>, or <<>> when there is none
Entry(m, u) == IF u \in DOMAIN m THEN <<m[u]>> ELSE <<>>

WorkerHolds == \E t \in Tokens : worker[t]' # worker[t] /\ status_lock = t
RequestHolds == \E r \in Reqs : req[r]'.pc # req[r].pc /\ status_lock = r
RegistrationHolds ==
    \E t \in Tokens : reg[t]' # reg[t] /\ RegThread(t) \in {status_lock, status_lock'}
MoverHoldsLock == WorkerHolds \/ RequestHolds \/ RegistrationHolds

\* C11: every step that changes the job-status map (creation, update, log
\* append, eviction, clearing) is taken by a thread that holds the status lock.
C11_StatusMapUnderLock ==
    [][processing_status' # processing_status => MoverHoldsLock]_vars

\* C12: every step that changes the cancellation-flag map is taken by a thread
\* that holds the status lock, and between the presence check and the write of
\* a cancel (main.py:473, 476) or of a worker's exit (main.py:386, 387) no
\* other thread's step changes the map.
C12_FlagMapUnderLock ==
    [][/\ cancellation_flags' # cancellation_flags => MoverHoldsLock
       /\ \A r \in Reqs : req[r].pc = "L476" /\ req[r]' = req[r]
              => cancellation_flags' = cancellation_flags
       /\ \A t \in Tokens : worker[t].pc = "L387" /\ worker[t]' = worker[t]
              => cancellation_flags' = cancellation_flags]_vars

(***************************************************************************)
(* External calls of the worker, main.py:249, 278 (ocr_extraction.py:334), *)
(* 310, 340, 370.                                                          *)
(***************************************************************************)
\* The worker is about to make, or is inside, an external call
ExternalCalls == {"L249", "L278", "O332", "L310", "L340", "L370"}

\* C13: a worker inside an external call (language scan, OCR page extraction,
\* language detection, reference generation, metadata persistence) does not
\* hold the status lock; a worker holds the lock only inside one of its short
\* locked blocks, so a request for any token waits for no stage of a job.
C13_NoLockInExternalCall ==
    \A t \in Tokens :
       /\ worker[t].pc \in ExternalCalls => status_lock # t
       /\ status_lock = t => worker[t].pc \in LockedLabels /\ worker[t].k >= 1

\* One job is inside reference generation while a cancel request for the
\* other token holds the lock
C13_Witness ==
    /\ worker["t1"].pc = "L340"
    /\ req["r1"].op = "cancel" /\ req["r1"].token = "t2"
    /\ status_lock = "r1"

(***************************************************************************)
(* The job boundary, main.py:378-387.                                      *)
(***************************************************************************)
\* The log lines the except handler can append, main.py:383
ErrorLogs ==
    {"[ERROR] " \o msg : msg \in {"KeyError", "OCR extraction returned no pages",
                                  "OCR model call failed", "reference generation failed"}}

\* C14: no exception leaves process_manual_background, and a job that ended
\* through the except handler has status "error" and stage "error" with the
\* message in its log, under any interleaving with polls, sweeps and cancels.
C14_NothingEscapes ==
    \A t \in Tokens :
       /\ ~worker[t].raised
       /\ Ended(t) /\ worker[t].via = "except"
            => /\ Status(t) = "error" /\ Stage(t) = "error"
               /\ Range(processing_status[t].logs) \cap ErrorLogs # {}

(***************************************************************************)
(* Completion, main.py:358-376.                                            *)
(***************************************************************************)
\* The worker of t is past the call of update_meta, main.py:369-376
MetaAttempted(t) == worker[t].via = "end"

\* C15: a poll that answers status "complete" for a token is answered after
\* the worker of the token attempted the metadata write.
C15_PersistBeforeComplete ==
    \A r \in Reqs :
       req[r].resp.kind = "snapshot" /\ req[r].resp.body.status = "complete"
          => MetaAttempted(req[r].token)

\* The metadata of t holds nothing: update_meta failed
MetaMissing(t) == meta[t].translated_filename = ""

\* C16: the call of update_meta, whether it succeeds or fails, changes no job
\* record and raises nothing, and a job that went through it without writing
\* the metadata still has status "complete" and stage "complete".
C16_MetaFailureKeepsComplete ==
    /\ [](\A t \in Tokens :
             worker[t].via = "end" /\ MetaMissing(t) /\ HasRecord(t)
                => Status(t) = "complete" /\ Stage(t) = "complete")
    /\ [][\A t \in Tokens :
             worker[t].pc = "L370" /\ worker[t]' # worker[t]
                => /\ processing_status' = processing_status
                   /\ worker[t]'.pc = "L386" /\ worker[t]'.via = "end"
                   /\ ~worker[t]'.raised]_vars

\* A job whose metadata write failed has ended complete
C16_Witness ==
    \E t \in Tokens :
       /\ Ended(t) /\ worker[t].via = "end" /\ MetaMissing(t)
       /\ Status(t) = "complete" /\ Stage(t) = "complete"

(***************************************************************************)
(* Terminal states, main.py:252-257, 288-293, 317-322, 351-356, 360-366,   *)
(* 378-383.                                                                *)
(***************************************************************************)
TerminalStatuses == {"complete", "cancelled", "error"}

\* C17: once the status of a record is complete, cancelled or error, no step
\* changes the status, and no step changes the stage, except that the locked
\* block that wrote the status goes on to write the stage of the same name
\* before it releases the lock.
C17_TerminalIsFinal ==
    [][\A t \in Tokens :
          HasRecord(t) /\ Status(t) \in TerminalStatuses
          /\ t \in DOMAIN processing_status'
             => /\ processing_status'[t].status = Status(t)
                /\ \/ processing_status'[t].stage = Stage(t)
                   \/ /\ status_lock = t
                      /\ processing_status'[t].stage = Status(t)]_vars

\* A cancel request is about to append its notice to a record that is
\* already complete, and the worker has steps left
C17_Witness ==
    \E t \in Tokens, r \in Reqs :
       /\ HasRecord(t) /\ Status(t) = "complete" /\ Stage(t) = "complete"
       /\ req[r].op = "cancel" /\ req[r].token = t /\ req[r].pc = "L480"
       /\ worker[t].pc = "L370"

(***************************************************************************)
(* Checkpoints, main.py:237, 251, 287, 316, 350; ocr_extraction.py:326.    *)
(***************************************************************************)
\* The worker of t takes the step
WorkerStep(t) == worker[t]' # worker[t]

\* C18 as stated: the last consultation of the flag comes before reference
\* generation, so no job is set to cancelled after reference generation.
C18_NoCancelAfterGeneration ==
    \A t \in Tokens :
       HasRecord(t) /\ Status(t) = "cancelled"
          => worker[t].pc # "L352" /\ worker[t].via # "return356"

\* C18, amended: the flag decides the worker's step at the checkpoints after the
\* language scan (stage language_scan), before each page of the extraction
\* loop, after the extraction returned (stage ocr_extraction), after the
\* language is settled and before translation or reference generation (stage
\* ocr_complete or language_detection), and after reference generation (stage
\* translating or generating_reference); the cancel branch is entered from
\* these four checkpoints of the worker only, and status "cancelled" is
\* written in these branches only.
C18_CheckpointsOfTheCode ==
    /\ [](\A t \in Tokens : HasRecord(t) =>
            /\ worker[t].pc = "L251" => Stage(t) = "language_scan"
            /\ worker[t].pc \in {"O326", "L237", "L287"} => Stage(t) = "ocr_extraction"
            /\ worker[t].pc = "L316" => Stage(t) \in {"ocr_complete", "language_detection"}
            /\ worker[t].pc = "L350" => Stage(t) \in {"translating", "generating_reference"})
    /\ [][\A t \in Tokens : WorkerStep(t) =>
            /\ worker[t].pc \in CheckLabels
                  => (worker[t]'.pc \in CancelBlock <=> check_cancelled(t))
            /\ worker[t].pc = "O326" => (worker[t]'.pc = "L287" <=> check_cancelled(t))
            /\ worker[t].pc = "L237" => (worker[t]'.pc = "L240" <=> ~check_cancelled(t))
            /\ worker[t].pc \notin CancelBlock /\ worker[t]'.pc \in CancelBlock
                  => worker[t].pc \in CheckLabels]_vars
    /\ [][\A t \in Tokens :
            HasRecord(t) /\ t \in DOMAIN processing_status'
            /\ processing_status'[t].status = "cancelled" /\ Status(t) # "cancelled"
               => WorkerStep(t) /\ worker[t].pc \in {"L253", "L289", "L318", "L352"}]_vars

\* A job is set to cancelled after its reference was generated
C18_Witness ==
    \E t \in Tokens :
       /\ worker[t].pc = "L352" /\ HasRecord(t)
       /\ Status(t) = "cancelled" /\ Stage(t) \in {"translating", "generating_reference"}

(***************************************************************************)
(* The branch after OCR, main.py:324-366.                                  *)
(***************************************************************************)
\* The names under which the collaborators report English: the code of
\* langdetect (language_detection.py:84) and the name the model is asked for
\* (translation.py:248)
EnglishNames == {"en", "English"}

\* The stages of the branch at main.py:328-338
BranchStages == {"translating", "generating_reference"}

\* C19: a job writes at most one of the stages translating and
\* generating_reference, and exactly one before reference generation starts;
\* it writes translating when its detected language is not English and
\* generating_reference when it is; the translated flag of a complete job is
\* true exactly when the job wrote the stage translating.
C19_OneBranchByLanguage ==
    /\ [](\A t \in Tokens :
            /\ ~(BranchStages \subseteq hist[t].stages)
            /\ HasRecord(t) /\ worker[t].pc \in {"L340", "L350"}
                  => /\ Stage(t) \in BranchStages
                     /\ hist[t].stages \cap BranchStages = {Stage(t)}
                     /\ Stage(t) = "generating_reference"
                           <=> worker[t].lang \in EnglishNames
            /\ HasRecord(t) /\ "translated" \in DOMAIN processing_status[t]
                  => /\ Status(t) = "complete"
                     /\ processing_status[t].translated
                           <=> "translating" \in hist[t].stages
            /\ Ended(t) /\ Status(t) = "complete"
                  => "translated" \in DOMAIN processing_status[t])
    /\ [][\A t \in Tokens :
            HasRecord(t) /\ t \in DOMAIN processing_status'
            /\ processing_status'[t].stage \in BranchStages
            /\ processing_status'[t].stage # Stage(t)
               => /\ Stage(t) \in {"ocr_complete", "language_detection"}
                  /\ processing_status'[t].stage = "generating_reference"
                        <=> worker[t].lang \in EnglishNames]_vars

\* A job detected as German went through translating and is complete with
\* the translated flag set
C19_Witness ==
    \E t \in Tokens :
       /\ Ended(t) /\ Status(t) = "complete"
       /\ processing_status[t].translated
       /\ "translating" \in hist[t].stages
       /\ processing_status[t].detected_language = "German"

(***************************************************************************)
(* The language-detection fallback, main.py:259-270, 303-314.              *)
(***************************************************************************)
\* detect_and_select_language_section returned None for the job of t
\* (main.py:262 leaves detected_language at "unknown")
DetectorReturnedNone(t) == hist[t].scan = "unknown"

\* The detector selected a section for the job of t
DetectorSelected(t) == hist[t].scan \notin {"", "unknown"}

\* C20: a job writes the stage language_detection, and calls detect_language,
\* only when its section detector returned none; a job whose detector
\* selected a section leaves ocr_complete for translating or
\* generating_reference (or for cancelled, at the checkpoint in between).
C20_FallbackOnlyWithoutSection ==
    /\ [](\A t \in Tokens :
            /\ "language_detection" \in hist[t].stages => DetectorReturnedNone(t)
            /\ worker[t].pc \in {"L305", "L306", "L310", "L311"} => DetectorReturnedNone(t))
    /\ [][\A t \in Tokens :
            HasRecord(t) /\ t \in DOMAIN processing_status'
            /\ Stage(t) = "ocr_complete" /\ processing_status'[t].stage # Stage(t)
            /\ DetectorSelected(t)
               => processing_status'[t].stage \in BranchStages \cup {"cancelled"}]_vars

\* A job whose detector selected the German section is translating without
\* having been in language_detection
C20_Witness ==
    \E t \in Tokens :
       /\ hist[t].scan = "de" /\ HasRecord(t) /\ Stage(t) = "translating"
       /\ hist[t].stages =
             {"language_scan", "ocr_extraction", "ocr_complete", "translating"}

(***************************************************************************)
(* Range extraction, ocr_extraction.py:303-348.                            *)
(***************************************************************************)
\* What the call did so far: <<"check", page, answer>>, <<"page", page,
\* outcome>>, <<"progress", page, outcome>>
Events == extraction.events

IsEvent(ev, what, res) == ev[1] = what /\ ev[3] = res

\* The page numbers of the pages extracted with a result among the first n
\* events, in the order of the events
OkPages(n) ==
    LET ok == SelectSeq(SubSeq(Events, 1, n), LAMBDA ev : IsEvent(ev, "page", "ok"))
    IN  [i \in 1..Len(ok) |-> ok[i][2]]

\* The pages of the range of the call
PagesOfRange ==
    {p \in 0..MaxDocPages + 1 :
        /\ extraction.start_page <= p
        /\ p <= extraction.page_count - 1
        /\ extraction.end_page # NoEndPage => p <= extraction.end_page}

\* C21: with a cancellation predicate, every page is processed right after the
\* predicate answered False for it; once the predicate answers True nothing
\* more is done: the call returns, without an exception, the results of the
\* pages extracted before.
C21_CancelStopsRange ==
    extraction.pc # "idle" /\ extraction.cancellation_check =>
       \A i \in DOMAIN Events :
          /\ Events[i][1] = "page"
                => i > 1 /\ Events[i - 1] = <<"check", Events[i][2], "False">>
          /\ IsEvent(Events[i], "check", "True")
                => /\ i = Len(Events)
                   /\ extraction.pc = "return"
                   /\ extraction.results = OkPages(i - 1)

\* The predicate answered True after a page was extracted and with pages of
\* the range left; the call returned the page extracted
C21_Witness ==
    /\ extraction.pc = "return"
    /\ Len(Events) >= 3 /\ IsEvent(Events[Len(Events)], "check", "True")
    /\ Events[Len(Events)][2] \in PagesOfRange
    /\ extraction.results # <<>>

\* The predicate never answered True
NotCancelled == \A i \in DOMAIN Events : ~IsEvent(Events[i], "check", "True")

\* C22: no failure of a page leaves the call as an exception, and a call that
\* was not cancelled went through every page of its range and returns the
\* results of all the pages that succeeded.
C22_PageFailureDoesNotAbort ==
    /\ extraction.pc # "raised"
    /\ extraction.pc = "return" /\ NotCancelled
          => /\ {Events[i][2] : i \in {j \in DOMAIN Events : Events[j][1] = "page"}}
                   = PagesOfRange
             /\ extraction.results = OkPages(Len(Events))

\* C23: with a progress callback, the callback is called right after each page
\* that was extracted with a result, for that page and once, and for no other
\* page; whether it returns or raises, the loop goes on with the next page
\* and the results are as before, and no exception leaves the call because
\* of it.
C23_ProgressPerPage ==
    /\ [](extraction.pc # "idle" /\ extraction.progress_callback =>
            /\ \A i \in DOMAIN Events :
                  /\ Events[i][1] = "progress"
                        => i > 1 /\ Events[i - 1] = <<"page", Events[i][2], "ok">>
                  /\ IsEvent(Events[i], "page", "ok")
                        => IF i = Len(Events) THEN extraction.pc = "O342"
                           ELSE Events[i + 1][1] = "progress"
                  /\ \A j \in DOMAIN Events :
                        Events[i][1] = "progress" /\ Events[j][1] = "progress"
                        /\ Events[i][2] = Events[j][2] => i = j
            /\ extraction.pc = "raised"
                  => IsEvent(Events[Len(Events)], "page", "raise"))
    /\ [][extraction.pc = "O342" /\ extraction' # extraction
            => /\ extraction'.pc = "O324"
               /\ extraction'.page_index = extraction.page_index + 1
               /\ extraction'.results = extraction.results]_vars

\* The callback raised for one page; the call extracted a later page and
\* returned both
C23_Witness ==
    /\ extraction.pc = "return"
    /\ Len(extraction.results) = 2
    /\ \E i \in DOMAIN Events :
          /\ IsEvent(Events[i], "progress", "raises")
          /\ Events[i][2] = extraction.results[1]

\* C24: the page numbers of the results are strictly increasing and lie
\* between start_page and the smaller of end_page and page_count - 1
\* (page_count - 1 when end_page is None); when start_page is at or beyond
\* page_count the call returns the empty list.
C24_ResultsInRange ==
    extraction.pc # "idle" =>
       LET r == extraction.results IN
       /\ \A i, j \in DOMAIN r : i < j => r[i] < r[j]
       /\ \A i \in DOMAIN r :
             /\ extraction.start_page <= r[i]
             /\ r[i] <= extraction.page_count - 1
             /\ extraction.end_page # NoEndPage => r[i] <= extraction.end_page
       /\ extraction.pc \notin {"O306", "O317"}
          /\ extraction.start_page >= extraction.page_count
             => extraction.pc = "return" /\ r = <<>>

\* A call with a start page after the first page and an end page beyond the
\* document returned two pages
C24_Witness ==
    /\ extraction.pc = "return"
    /\ extraction.start_page > 0
    /\ extraction.end_page > extraction.page_count - 1
    /\ Len(extraction.results) = 2

(***************************************************************************)
(* Page extraction, ocr_extraction.py:238-279.                             *)
(***************************************************************************)
\* C25: when a page extraction has ended, by returning a result, by returning
\* None after a failed render or by an exception, the temporary render of the
\* page is not in the image directory, and every figure crop the call saved
\* is; the end of the call removes nothing but the render.
C25_RenderRemoved ==
    /\ [](page_run.pc = "done" =>
            /\ TempName(page_run.page_num) \notin page_run.files
            /\ Range(page_run.image_filenames) \subseteq page_run.files)
    /\ [][page_run.pc # "idle" /\ page_run'.pc = "done" /\ page_run.pc # "done"
            => page_run.files \ {TempName(page_run.page_num)} \subseteq page_run'.files]_vars

\* The OCR call raised after the page was rendered; the render is gone and
\* the crops of the page before are still there
C25_Witness ==
    /\ page_run.pc = "done" /\ page_run.out = "raise"
    /\ page_run.files = {ImageName(page_run.page_num - 1, 1)}

(***************************************************************************)
(* Language sections, language_detection.py:114-214.                       *)
(***************************************************************************)
Sections == detection.sections

\* group_consecutive_pages has returned a section list for the document
Grouped == detection.pc \in {"L260", "return"} /\ Sections # <<>>

\* C26: the sections grouped from a non-empty sample mapping cover the pages
\* 0 .. total_pages - 1 exactly once: every page of the document lies in
\* exactly one section.
C26_SectionsCoverDocument ==
    Grouped =>
       \A p \in 0..detection.total_pages - 1 :
          Cardinality({i \in DOMAIN Sections :
                          Sections[i].start_page <= p /\ p <= Sections[i].end_page}) = 1

\* C27: every section has start_page <= end_page and page_count = end_page -
\* start_page + 1; the sections are ordered by start_page and do not overlap;
\* each section starts on a sampled page of its language, the first one on
\* the first sampled page; a section that is not the last ends on the page
\* before the next section's start, the last one on total_pages - 1.
C27_SectionGeometry ==
    Grouped =>
       /\ \A i \in DOMAIN Sections :
             LET s == Sections[i] IN
             /\ s.start_page <= s.end_page
             /\ s.page_count = s.end_page - s.start_page + 1
             /\ s.start_page \in DOMAIN detection.languages
             /\ detection.languages[s.start_page] = s.language
             /\ i < Len(Sections) => /\ s.end_page = Sections[i + 1].start_page - 1
                                     /\ s.language # Sections[i + 1].language
             /\ i = Len(Sections) => s.end_page = detection.total_pages - 1
       /\ \A p \in DOMAIN detection.languages : Sections[1].start_page <= p
       /\ \A p \in DOMAIN detection.languages :
             \E i \in DOMAIN Sections :
                /\ Sections[i].start_page <= p /\ p <= Sections[i].end_page
                /\ Sections[i].language = detection.languages[p]

\* Three sections of a seven-page document whose last page was not sampled
\* and whose first page has no language
C27_Witness ==
    /\ Grouped /\ Len(Sections) = 3
    /\ detection.total_pages = 7
    /\ DOMAIN detection.languages = {1, 2, 3, 4, 5}

\* Some sampled page is English
EnglishSampled ==
    \E p \in DOMAIN detection.languages : detection.languages[p] = "en"

\* C28: when some sampled page is classified English the detector returns an
\* English section of the grouping, none of the English sections is longer,
\* and of the English sections of that length it is the first.
C28_LongestEnglishSection ==
    detection.pc = "return" /\ EnglishSampled =>
       /\ detection.result = <<"en", detection.best.start_page, detection.best.end_page>>
       /\ \E i \in DOMAIN Sections :
             /\ Sections[i] = detection.best
             /\ \A j \in DOMAIN Sections :
                   Sections[j].language = "en"
                      => /\ Sections[j].page_count <= Sections[i].page_count
                         /\ Sections[j].page_count = Sections[i].page_count => i <= j

\* Two English sections of the same length, the longest ones; the first is
\* returned
C28_Witness ==
    /\ detection.pc = "return"
    /\ \E i, j \in DOMAIN Sections :
          /\ i < j /\ Sections[i] = detection.best
          /\ Sections[j].language = "en"
          /\ Sections[j].page_count = Sections[i].page_count

\* No section of the list is English
NoEnglishSection == \A i \in DOMAIN Sections : Sections[i].language # "en"

Ranked(lang) == lang \in DOMAIN TRANSLATION_EASE_RANKING

\* Section a is at least as good as section b: of an easier language, or of
\* an equally easy one and not shorter; a language without a rank is harder
\* than every ranked one
AtLeastAsGood(a, b) ==
    \/ Ranked(a.language) /\ ~Ranked(b.language)
    \/ /\ Ranked(a.language) <=> Ranked(b.language)
       /\ \/ ease_rank(a.language) < ease_rank(b.language)
          \/ /\ ease_rank(a.language) = ease_rank(b.language)
             /\ a.page_count >= b.page_count

\* C29: from a list without an English section the selection returns a
\* section of the list that is at least as good as every other one: easier
\* languages win whatever the lengths, among equally easy ones the longest
\* wins, an unranked language loses against every ranked one; German with 10
\* pages wins over Arabic with 40; from the empty list it returns none.
C29_EasiestThenLongest ==
    detection.pc = "return" =>
       /\ Sections = <<>> => detection.result = <<>>
       /\ Sections # <<>> /\ NoEnglishSection =>
             /\ detection.best \in Range(Sections)
             /\ detection.result = <<detection.best.language, detection.best.start_page,
                                     detection.best.end_page>>
             /\ \A i \in DOMAIN Sections : AtLeastAsGood(detection.best, Sections[i])
       /\ Range(Sections) = {Section("de", 0, 9, 10), Section("ar", 0, 39, 40)}
             => detection.best = Section("de", 0, 9, 10)

\* Arabic with 40 pages before German with 10: German is returned
C29_Witness ==
    /\ detection.pc = "return"
    /\ Sections = <<Section("ar", 0, 39, 40), Section("de", 0, 9, 10)>>
    /\ detection.result = <<"de", 0, 9>>

\* Ordinals of the matches whose type is image or figure in any case
KeptMatches ==
    {m \in DOMAIN grounding.grounding_text : IsFigure(grounding.grounding_text[m].type)}

\* C30: whatever the model emitted, the returned elements are the kept
\* image/figure annotations, each once, numbered 1..n without gaps in the
\* order of the list, by ascending top edge of the returned box, annotations
\* of equal top edge in the order of their emission.
C30_IndicesFollowTopEdge ==
    grounding.pc = "return" =>
       LET out == grounding.result
       IN  /\ Len(out) = Cardinality(KeptMatches)
           /\ {out[k].match : k \in DOMAIN out} = KeptMatches
           /\ \A k \in DOMAIN out :
                 /\ out[k].index = k
                 /\ out[k].type = grounding.grounding_text[out[k].match].type
                 /\ out[k].coords =
                       Scaled(grounding.grounding_text[out[k].match].y1, grounding.height)
           /\ \A j, k \in DOMAIN out :
                 j < k => \/ out[j].coords < out[k].coords
                          \/ /\ out[j].coords = out[k].coords
                             /\ out[j].match < out[k].match

\* Three figures emitted lowest first; the two upper ones, whose top edges
\* differ before scaling and coincide after it, are returned first, in the
\* order of their emission
C30_Witness ==
    /\ grounding.pc = "return"
    /\ Len(grounding.result) = 3
    /\ grounding.result[1].match = 2
    /\ grounding.result[2].match = 3
    /\ grounding.result[3].match = 1
    /\ grounding.result[1].coords = grounding.result[2].coords
    /\ grounding.grounding_text[2].y1 # grounding.grounding_text[3].y1
    /\ grounding.grounding_text[2].type # grounding.grounding_text[3].type

\* C31: on every rendered image the model box (500, 500, 1000, 1000) is
\* returned as (W/2, H/2, W, H) exactly.
C31_HalfBoxExact ==
    grounding.pc = "scaled" /\ grounding.box = <<500, 500, 1000, 1000>> =>
       /\ 2 * grounding.coords[1] = grounding.width
       /\ 2 * grounding.coords[2] = grounding.height
       /\ grounding.coords[3] = grounding.width
       /\ grounding.coords[4] = grounding.height

HasTag(s) == \E i \in DOMAIN s : TagEnd(s, i) # 0

HasMarker(s) == \E i \in DOMAIN s : MarkerEnd(s, i) # 0

\* C32: whatever the OCR output, the cleaned text contains no annotation tag
\* and no tag marker.
C32_NoTagRemains ==
    grounding.pc = "return" =>
       ~HasTag(grounding.cleaned) /\ ~HasMarker(grounding.cleaned)

\* The arguments of the progress call a step makes
ProgressMade == extraction'.calls[Len(extraction'.calls)]

\* The pages of the range the loop has attempted so far, failed ones included
PagesAttempted == Len(SelectSeq(Events, LAMBDA ev : ev[1] = "page"))

\* C33 as stated: every progress call receives the number of results so far
\* and the number of pages of the clipped range.
C33_ProgressCountsResults ==
    [][extraction.pc = "O342" /\ extraction'.calls # extraction.calls
          => ProgressMade = <<Len(extraction.results), Cardinality(PagesOfRange)>>]_vars

\* C33: every progress call receives the number of pages of the range the
\* loop has attempted so far, the pages that failed among them, and the
\* number of pages of the clipped range; the first is the number of results
\* exactly when no earlier page of the range failed.
C33_ProgressIsPosition ==
    [][extraction.pc = "O342" /\ extraction'.calls # extraction.calls
          => /\ ProgressMade = <<PagesAttempted, Cardinality(PagesOfRange)>>
             /\ ProgressMade[1] = Len(extraction.results)
                   <=> ~\E i \in DOMAIN Events : IsEvent(Events[i], "page", "None")
             /\ Len(extraction'.calls) = Len(extraction.calls) + 1]_vars

\* The first page of a three-page range failed; the call for the second
\* page reported 2 of 3 with one result
C33_Witness ==
    /\ extraction.calls = <<<<2, 3>>>>
    /\ Len(extraction.results) = 1
    /\ IsEvent(Events[Len(Events)], "progress", "returns")

\* Status and stage of a record agree
Agree(rec) ==
    /\ rec.status \in {"processing"} \cup TerminalStatuses
    /\ rec.status = "processing" <=> rec.stage \notin TerminalStatuses
    /\ \A x \in TerminalStatuses : rec.status = x <=> rec.stage = x

\* C34: every record a poll returns, the synthetic not-found record
\* included, has status and stage in agreement, and so has every record of
\* the job map while its worker is outside its locked blocks, which is when
\* a poll can copy it.
C34_StatusStageAgree ==
    /\ \A r \in Reqs :
          req[r].resp.kind \in {"snapshot", "not_found"} => Agree(req[r].resp.body)
    /\ \A t \in DOMAIN processing_status :
          status_lock # t => Agree(processing_status[t])

\* A poll waits for the lock while the worker, inside its locked block, has
\* set the stage to complete and not yet the status
C34_Witness ==
    \E r \in Reqs, t \in Tokens :
       /\ req[r].pc = "L462" /\ req[r].token = t
       /\ status_lock = t
       /\ t \in DOMAIN processing_status
       /\ processing_status[t].stage = "complete"
       /\ processing_status[t].status = "processing"

\* The worker of t has been dispatched and has not ended
Running(t) == worker[t].pc \notin {"idle", "done"}

\* C35: a sweep removes exactly by age, whatever the status: when it is over
\* no entry older than the TTL is left, and an entry it removes was older
\* than the TTL.  Only the registration creates an entry; a worker step of a
\* job without entry changes nothing in the job map; an entry that the sweep
\* or a reset removed stays absent; and a poll that tests for the entry after
\* the eviction answers with the synthetic not-found record.
C35_EvictedStaysEvicted ==
    /\ [](\A r \in Reqs : SweepDone(r) =>
             \A t \in DOMAIN processing_status :
                req[r].current_time - processing_status[t].created_at
                   <= STATUS_TTL_SECONDS)
    /\ [](\A t \in Tokens : hist[t].evicted # "no" => t \notin DOMAIN processing_status)
    /\ [][\A t \in Tokens :
             /\ hist[t].evicted = "no" /\ hist'[t].evicted = "ttl" =>
                   \E r \in Reqs : req[r].current_time - processing_status[t].created_at
                                      > STATUS_TTL_SECONDS
             /\ t \notin DOMAIN processing_status /\ t \in DOMAIN processing_status' =>
                   reg'[t] = reg[t] + 1 /\ worker[t].pc = "idle"
             /\ t \notin DOMAIN processing_status /\ worker'[t] # worker[t] =>
                   processing_status' = processing_status]_vars
    /\ [][\A r \in Reqs :
             /\ req[r].pc = "L454" /\ req'[r] # req[r]
             /\ hist[req[r].token].evicted # "no"
             => req'[r].pc = "ret" /\ req'[r].resp = Response("not_found", NotFoundRecord)]_vars

\* The sweep removed the entry of a job in progress; its worker went on to
\* the end of its try block without an entry, and a poll answered not-found
\* while the worker was still running
C35_Witness ==
    \E r \in Reqs, t \in Tokens :
       /\ hist[t].evicted = "ttl"
       /\ "complete" \notin hist[t].stages
       /\ worker[t].pc = "L386" /\ ~worker[t].raised /\ worker[t].exc = ""
       /\ req[r].pc = "ret" /\ req[r].token = t /\ req[r].resp.kind = "not_found"

\* The flag of t is set
FlagSet(t) == t \in DOMAIN cancellation_flags /\ cancellation_flags[t]

\* C36: at the checkpoint after the extraction a set flag sends the worker
\* into the cancelled branch whatever the number of extracted pages, no
\* exception is raised for an empty result, and the job whose worker left by
\* that branch has status and stage cancelled (in its record, if the map
\* still holds one).
C36_CancelBeforeEmptyFault ==
    /\ [][\A t \in Tokens :
             worker[t].pc = "L287" /\ worker'[t] # worker[t] /\ FlagSet(t) =>
                /\ worker'[t].pc = "L288"
                /\ worker'[t].exc = ""]_vars
    /\ [](\A t \in Tokens :
             /\ worker[t].via = "return293" /\ HasRecord(t) =>
                   /\ processing_status[t].status = "cancelled"
                   /\ processing_status[t].stage = "cancelled"
             /\ worker[t].pc \in {"L288", "L289"} => worker[t].exc = "")

\* The extraction returned no page, the flag was set at the checkpoint, and
\* the job ended cancelled
C36_Witness ==
    \E t \in Tokens :
       /\ hist[t].zero
       /\ worker[t].pc = "done" /\ worker[t].via = "return293"
       /\ HasRecord(t) /\ processing_status[t].status = "cancelled"

(***************************************************************************)
(* The lock protocol, main.py:31-51, 226-240, 415-422, 462-463, 478-480.   *)
(***************************************************************************)
\* The threads that use status_lock
LockUsers == Tokens \cup Reqs \cup {RegThread(t) : t \in Tokens}

\* Thread x is at a "with status_lock:" statement, about to request the lock
LockRequested(x) ==
    \/ x \in Tokens /\ worker[x].pc \in LockedLabels /\ worker[x].k = 0
    \/ x \in Reqs /\ req[x].pc \in {"L41", "L462", "L478"}

\* Thread x is inside the body of a "with status_lock:" statement
InsideLock(x) ==
    \/ x \in Tokens /\ worker[x].k >= 1
    \/ x \in Reqs /\ req[x].pc \in {"L42", "L47", "L48", "L49", "L50", "L480"}
    \/ \E t \in Tokens : x = RegThread(t) /\ reg[t] = 1

\* The next step of thread x
StepOf(x) ==
    \/ x \in Tokens /\ process_manual_background(x)
    \/ x \in Reqs /\ RequestStep(x)
    \/ \E t \in Tokens : x = RegThread(t) /\ RegistrationStep(t)

\* Thread x has begun and not finished
InFlight(x) ==
    \/ x \in Tokens /\ worker[x].pc \notin {"idle", "done"}
    \/ x \in Reqs /\ req[x].op # "idle"
    \/ \E t \in Tokens : x = RegThread(t) /\ reg[t] \in 1..(Len(process_manual_steps) - 1)

\* C37: the lock is held exactly by a thread inside a locked block, and never
\* requested by the thread that holds it; the next step of the holder is
\* always possible (it waits for nothing), so whenever some thread is under
\* way some thread can take a step; and every time the lock is held it is
\* free again later.
C37_NoDeadlock ==
    /\ [](\A x \in LockUsers :
            /\ status_lock = x <=> InsideLock(x)
            /\ status_lock = x => ~LockRequested(x)
            /\ status_lock = x => ENABLED (StepOf(x) \/ \E r \in Reqs : Answered(r)))
    /\ []((\E x \in LockUsers : InFlight(x)) => ENABLED (\E x \in LockUsers : StepOf(x)))
    /\ (status_lock # NoOwner) ~> (status_lock = NoOwner)

\* The request thread holds the lock while the worker waits
\* for it
C37_Witness ==
    /\ status_lock = "r1"
    /\ LockRequested("t1")

(***************************************************************************)
(* Termination of the worker, main.py:223-387, ocr_extraction.py:324-348.  *)
(***************************************************************************)
\* The worker of t has been dispatched and has not returned
Working(t) == worker[t].pc \notin {"idle", "done"}

\* The job of t is settled: its record is gone or its status is final
Settled(t) == HasRecord(t) => Status(t) \in TerminalStatuses

\* C38: when every external call returns or raises, a worker that was
\* dispatched returns; when it has returned, the record of its job, if there
\* still is one, has status complete, cancelled or error; so a record with
\* status "processing" does not stay so forever.
C38_EveryJobEnds ==
    /\ \A t \in Tokens :
          (Working(t) \/ Processing(t)) ~> (worker[t].pc = "done" /\ Settled(t))
    /\ [](\A t \in Tokens : worker[t].pc = "done" => Settled(t))

\* An external call raised, and the job ended with status "error"
C38_Witness ==
    \E t \in Tokens :
       /\ worker[t].pc = "done" /\ worker[t].via = "except"
       /\ HasRecord(t) /\ Status(t) = "error"

=============================================================================
